---- MODULE Spec2Model ----
(***************************************************************************)
(* A model of the RAG chatbot backend: the embedding client                *)
(* (services/embeddings.js), the conversation store (config/database.js,   *)
(* sessionUtils) and the chat controller (controllers/chatController.js).  *)
(*                                                                         *)
(* Two specifications share the module.  SpecEmbed runs one call of the    *)
(* embedding client against a provider whose answers are chosen freely.    *)
(* SpecChat runs concurrent chat requests against one Redis instance, at   *)
(* the grain of the single Redis commands and awaited service calls.       *)
(***************************************************************************)
EXTENDS Integers, Sequences, FiniteSets, TLC

(***************************************************************************)
(* Bounds of the model.                                                    *)
(***************************************************************************)
MaxTexts == 5          \* longest input array given to batchGenerateEmbeddings
MaxRetriesArg == 3     \* largest maxRetries argument tried
NumReq == 1            \* chat requests, one after another on the one session id
NumClients == 2        \* callers of the conversation store on the one session id
MaxLimit == 2          \* largest limit a getChatHistory request asks for
HistoryBound == 3      \* a bound the message list is tried against
MaxSents == 3          \* most sentences of a text given to the chunker
MaxDocs == 1           \* most documents a vector search returns
MaxChunks == 2         \* most increments a streamed generation yields
NumInits == 2          \* calls of initializeServices (starts of the server or the script)
MaxPoints == 3         \* most points the collection holds when searched
MaxK == 2              \* largest limit given to searchSimilar
NumRuns == 2           \* ingestion runs under way at the same time
NumArticles == 2       \* articles fetched by an ingestion run
MaxClock == 3          \* last millisecond of the clock
MaxDim == 2            \* longest vector given to calculateSimilarity
MaxChars == 3          \* characters of the texts given to generateEmbeddings, in all
MaxInputs == 2         \* texts of the array given to generateEmbeddings

(***************************************************************************)
(* Program constants of the embedding client.                              *)
(***************************************************************************)
MaxTextLength == 8192        \* trimmed.length <= 8192
DefaultMaxRetries == 3       \* maxRetries = 3
DefaultBatchSize == 5        \* batchSize = 5
DefaultDelayMs == 2000       \* delayMs = 2000
BaseDelay == 1000            \* const baseDelay = 1000
ItemDelayMs == 1000          \* setTimeout(resolve, 1000) after an individual success
DefaultLimit == 50           \* getMessages(sessionId, limit = 50)
TruncateLength == 8000       \* if (processed.length > 8000)
SentenceBreakMin == 7000     \* if (lastSentenceEnd > 7000)
MinChunkLength == 10         \* cleanText.length < 10; chunk.trim().length >= 10
MaxChunkLength == 7500       \* const maxLength = 7500
MaxValidChunk == 8000        \* chunk.trim().length <= 8000
VectorSize == 768            \* size: 768; currentSize !== 768
ScoreThreshold == 70         \* score_threshold: 0.7, scores counted in hundredths

Ok == 200                    \* the provider's status of a successful answer
NoCall == 0                  \* an attempt that made no provider request
NoResponse == 0              \* an Error object without a .response property
Null == [vec |-> 0]          \* null in the place of a vector
NoError == [message |-> "undefined", response |-> NoResponse]  \* let lastError;

(***************************************************************************)
(* Texts.  A text is kept as what the validation reads of it: whether it   *)
(* is a string, and the length of its trimmed form.  The id stands for its *)
(* content: the provider's vector for a text is determined by it.          *)
(***************************************************************************)
Text(i, s, n) == [id |-> i, str |-> s, trimLen |-> n]

\* the trimmed lengths tried: empty, ordinary, the limit, one over the limit
TrimLens == {0, 5, MaxTextLength, MaxTextLength + 1}

SingleTexts ==
    {Text(1, TRUE, n) : n \in TrimLens} \cup {Text(1, FALSE, 0)}

\* within an array: valid, empty, over the limit
ArrayLens == {0, 5, MaxTextLength + 1}

RECURSIVE TextArrays(_)
TextArrays(n) ==
    IF n = 0 THEN {<<>>}
    ELSE LET shorter == TextArrays(n - 1)
         IN  shorter \cup
             {Append(a, Text(n, TRUE, l)) : a \in {b \in shorter : Len(b) = n - 1},
                                          l \in ArrayLens}

BatchSizes == {2, DefaultBatchSize}

\* what the provider answers to one request: 200 with the vectors, or an
\* HTTP error status (500 also stands for a timeout or a network failure)
ProviderOutcomes == {Ok, 401, 403, 422, 429, 500}

\* the filter predicate of generateEmbeddings
ValidText(text) ==
    /\ text.str
    /\ text.trimLen > 0
    /\ text.trimLen <= MaxTextLength

SelectValid(items) == SelectSeq(items, ValidText)

\* the provider's vector for one text
Embedding(text) == [vec |-> text.id]

\* an Error thrown by generateEmbeddings: always a fresh Error, which has a
\* message and no .response
Err(m) == [message |-> m, response |-> NoResponse]

\* the catch block of generateEmbeddings: the axios error (with its
\* response status) is logged and replaced by a new Error
WrapProviderError(status) ==
    IF status = 422 THEN Err("Jina API validation error")
    ELSE IF status = 429 THEN Err("Rate limit exceeded")
    ELSE IF status = 401 THEN Err("Invalid API key")
    ELSE Err("Failed to generate embeddings")

(***************************************************************************)
(* generateEmbeddings(texts) against a provider that answers `outcome`.    *)
(* input = [isArray, items].  The result says whether the provider was     *)
(* called, which texts were sent, and the value returned or error thrown.  *)
(***************************************************************************)
GenerateEmbeddings(input, outcome) ==
    LET validTexts == SelectValid(input.items)
    IN  IF Len(validTexts) = 0
        THEN [ok |-> FALSE, called |-> FALSE, sent |-> <<>>,
              error |-> Err("Failed to generate embeddings"), value |-> Null]
        ELSE IF outcome = Ok
        THEN LET embeddings == [k \in 1..Len(validTexts) |-> Embedding(validTexts[k])]
             IN  [ok |-> TRUE, called |-> TRUE, sent |-> validTexts,
                  error |-> NoError,
                  value |-> IF input.isArray THEN embeddings ELSE embeddings[1]]
        ELSE [ok |-> FALSE, called |-> TRUE, sent |-> validTexts,
              error |-> WrapProviderError(outcome), value |-> Null]

\* the wait before attempt n of generateEmbeddingsWithRetry
RECURSIVE Pow2(_)
Pow2(n) == IF n = 0 THEN 1 ELSE 2 * Pow2(n - 1)

\* a slip: the exponent one too high
RetryDelay_Exponent(attempt) == IF attempt > 1 THEN Pow2(attempt) * 1000 ELSE 0

\* attempt > 1 ? Math.pow(2, attempt - 1) * 1000 : 0
RetryDelay(attempt) == IF attempt > 1 THEN Pow2(attempt - 1) * 1000 ELSE 0

\* a slip: the base delay paid before the first attempt only
TotalDelay_BaseOnce(attempt) ==
    IF attempt > 1 THEN RetryDelay(attempt) ELSE BaseDelay

TotalDelay(attempt) == BaseDelay + RetryDelay(attempt)

VARIABLES
    op,             \* the call under way: "retry" or "batch"
    texts,          \* batch: the input array
    batchSize,      \* batch: the batchSize argument
    bpc,            \* batch: position in batchGenerateEmbeddings
    bi,             \* batch: the loop variable i (0-based offset)
    bk,             \* batch: index within the failed batch of the item retried
    allEmbeddings,  \* batch: the result array
    rInput,         \* retry: the texts argument, [isArray, items]
    maxRetries,     \* retry: the maxRetries argument
    attempt,        \* retry: the loop variable
    rpc,            \* retry: "idle", "wait", "call", "returned", "thrown"
    lastError,      \* retry: let lastError
    rResult,        \* retry: the value returned or the error thrown
    provCalls,      \* retry: provider requests made by this call (history)
    waited,         \* retry: milliseconds waited by this call (history)
    outcomes        \* retry: what each attempt of this call met (history)

embedVars == <<op, texts, batchSize, bpc, bi, bk, allEmbeddings, rInput,
               maxRetries, attempt, rpc, lastError, rResult, provCalls,
               waited, outcomes>>

VARIABLES
    sess,           \* Redis: the hash session:<id>
    msgs,           \* Redis: the list messages:<id>, most recent first
    msgsTtl,        \* Redis: whether the list key has an expiry set
    pc,             \* per request: position in sendMessage / sendMessageStream
    mode,           \* per request: "sync" (sendMessage) or "stream"
    body,          \* per request: the request body's shape
    news,           \* per request: isNewsRelated, once answered
    docs,           \* per request: retrievedDocuments
    answer,         \* per request: sync, the sources of `response`
    full,           \* per request: stream, fullResponse
    yielded,        \* per request: stream, the increments the generator
                    \* has yielded, in order (history)
    events,         \* per request: what has been written to the response
    ended,          \* per request: the response is finished
    calls,          \* per request: retrieval services called (history)
    failedAt,       \* per request: the awaited call that threw (history)
    appended,       \* per request: the messages it pushed (history)
    closedAt,       \* per request: the client's disconnect and the number of
                    \* events written before it (history)
    llmText         \* per request: sync, the text sent to the generative model

redisVars == <<sess, msgs, msgsTtl>>

reqVars == <<pc, mode, body, news, docs, answer, full, yielded, events, ended, calls,
             failedAt, appended, closedAt, llmText>>

chatVars == <<redisVars, reqVars>>

VARIABLES
    cop,            \* per store caller: the operation it runs
    cpc,            \* per store caller: the command it is about to issue
    addsSinceCreated,    \* pushes since the session record came to exist (history)
    addsSinceCreateCall, \* pushes since the last createSession (history)
    lim,            \* per store caller: the limit of its getChatHistory
    view            \* per store caller: the messages getMessages returned;
                    \* the keys its deleteSession removed and whether one of
                    \* its DEL commands failed (history)

storeVars == <<cop, cpc, addsSinceCreated, addsSinceCreateCall, lim, view>>

VARIABLES
    cText,          \* the text given to processTextForEmbedding
    cPc,            \* "start", then "done" once it has returned
    cClean,         \* cleanText
    cChunks,        \* the chunks returned
    cAgain          \* prepareTextForEmbedding(cleanText)

chunkVars == <<cText, cPc, cClean, cChunks, cAgain>>

VARIABLES
    qColl,          \* Qdrant: the collection news_embeddings
    qPc,            \* per call of initializeServices: the position in its
                    \* initializeQdrant
    qRedis,         \* per call: its initializeRedis: "ping", "ok", "failed"
    qKind,          \* per call: who called: "server" (startServer of
                    \* app.js) or "script" (run of the ingestion script)
    qCalls,         \* calls of initializeServices begun so far
    qBefore,        \* per call: the collection when it began (history)
    qResp,          \* per call: the answer to the request it awaits:
                    \* "pending" until the request is handled or fails,
                    \* then "ok" or "failed"
    qSeen,          \* per call: currentSize as getCollection reported it
    qLog,           \* per call: its delete / create requests (history)
    sDistance,      \* search: the distance of the collection
    sPoints,        \* search: the points of the collection, with their scores
    sLimit,         \* search: the limit argument
    sPc,            \* search: "start", "returned" or "thrown"
    sAnswered,      \* search: whether the service answered the request
    sResult,        \* search: the value returned
    clock,          \* ingestion: Date.now(), in milliseconds
    gPc,            \* per run: the position in run(): "init" (awaiting
                    \* initializeServices), "loop", "upsert", "done" or
                    \* "thrown"
    gInit,          \* per run: the position in its initializeQdrant:
                    \* "health", "get", "delete", "create", "done", "thrown"
    gResp,          \* per run: the answer to the request initializeQdrant
                    \* awaits: "pending", then "ok" or "failed"
    gSeen,          \* per run: currentSize as getCollection reported it
    gRedis,         \* per run: its initializeRedis: "ping", "ok", "failed"
    gI,             \* per run: the loop variable i
    gId,            \* per run: numericId of the article being stored
    gLastId,        \* per run: the numericId before that one (history)
    gColl,          \* ingestion: the collection news_embeddings
    gPoints,        \* ingestion: the points of the collection, by id
    gStored         \* ingestion: the articles whose upsert was answered (history)

searchVars == <<sDistance, sPoints, sLimit, sPc, sAnswered, sResult>>

ingestVars ==
    <<clock, gPc, gInit, gResp, gSeen, gRedis, gI, gId, gLastId, gColl, gPoints,
      gStored>>

qdrantVars ==
    <<qColl, qPc, qResp, qRedis, qKind, qCalls, qBefore, qSeen, qLog>>

vecVars == <<qdrantVars, searchVars, ingestVars>>

VARIABLES
    fEnv,           \* process.env.NODE_ENV ("unset" when not defined)
    fOp,            \* the ChatController operation that fails
    fMsgA,          \* error.message in the first of two failing runs
    fMsgB,          \* error.message in the second
    fPc,            \* "start", then "answered"
    fBodyA,         \* what the first run sent to the caller
    fBodyB,         \* what the second run sent
    vectorA,        \* calculateSimilarity: the first argument
    vectorB,        \* calculateSimilarity: the second argument
    simPc,          \* calculateSimilarity: "start", then "done"
    simResult       \* calculateSimilarity: the value returned, or the throw

simVars == <<vectorA, vectorB, simPc, simResult>>

VARIABLES
    rtMessage,      \* route: whether req.body.message is truthy
    rtNews,         \* route: whether the question is about current news
    rtDistance,     \* route: the distance of the collection
    rtPoints,       \* route: the points of the collection, with their scores
    rtPc,           \* route: position in the handler of POST /message
    rtCalls,        \* route: retrieval services called (history)
    rtArticles,     \* route: relevantArticles, the answer of searchSimilar
    rtResponse      \* route: what was sent to the caller

routeVars ==
    <<rtMessage, rtNews, rtDistance, rtPoints, rtPc, rtCalls, rtArticles, rtResponse>>

VARIABLES
    eTexts,         \* generateEmbeddings: the texts argument, character by character
    ePc,            \* generateEmbeddings: "start", "posted" or "thrown"
    eInput          \* generateEmbeddings: the input array of the request

sendVars == <<eTexts, ePc, eInput>>

failVars == <<fEnv, fOp, fMsgA, fMsgB, fPc, fBodyA, fBodyB, simVars, routeVars,
              sendVars>>

vars == <<embedVars, chatVars, storeVars, chunkVars, vecVars, failVars>>

(***************************************************************************)
(* The text normalizer / chunker: prepareTextForEmbedding and              *)
(* processTextForEmbedding.  A text is told by what the chunker looks at:  *)
(* whether it is a string, how many characters cleaning removes from it    *)
(* (control and zero-width characters, surplus whitespace), and the        *)
(* lengths of the runs its cleaned form is made of.  A run is a stretch of *)
(* characters between two separating spaces; it either ends with a         *)
(* sentence end (. ! ?) as its last character or holds none.  A string is  *)
(* kept as the sequence of its segments, a segment being the first len     *)
(* characters of a run; a segment of no character at the end of a string   *)
(* is a trailing space.                                                    *)
(* normalize("NFC") runs after the control characters are removed and      *)
(* before the zero-width characters are: a text may begin with a letter    *)
(* and its combining mark next to each other ("joined": the cleaning makes *)
(* one character of them), or held apart by the zero-width characters that *)
(* the cleaning removes ("apart": the cleaned text begins with the two of  *)
(* them, now next to each other; the segment says so in its field pair).   *)
(***************************************************************************)
\* the lengths of the runs that end a sentence, and of those that do not
SentLens == {1, 9, 10, 3749, 3750, 7499, 7500, 7501, 8001}
WordLens == {9, 7999}
SentRuns == [len : SentLens, stop : {TRUE}] \cup [len : WordLens, stop : {FALSE}]

RECURSIVE SentSeqs(_)
SentSeqs(n) ==
    IF n = 0 THEN {<<>>}
    ELSE SentSeqs(n - 1) \cup
         {Append(q, l) : q \in {x \in SentSeqs(n - 1) : Len(x) = n - 1},
                         l \in SentRuns}

\* how a text begins: with no letter and mark, with a letter and its mark
\* next to each other, or with the two held apart by zero-width characters
Pairs == {"none", "joined", "apart"}

ChunkerInputs ==
    {[isString |-> FALSE, removed |-> 0, pair |-> "none", sents |-> <<>>,
      stops |-> <<>>]} \cup
    {[isString |-> TRUE, removed |-> c[1], pair |-> c[2],
      sents |-> [i \in 1..Len(c[3]) |-> c[3][i].len],
      stops |-> [i \in 1..Len(c[3]) |-> c[3][i].stop]] :
        c \in {d \in {0, 5} \X Pairs \X SentSeqs(MaxSents) :
                  /\ d[2] = "joined" => Len(d[3]) > 0
                  /\ d[2] = "apart" =>
                        d[1] > 0 /\ Len(d[3]) > 0 /\ d[3][1].len >= 2}}

\* the number of characters of the raw text
RawLength(text) ==
    LET RECURSIVE Sum(_)
        Sum(i) == IF i = 0 THEN 0 ELSE Sum(i - 1) + text.sents[i]
        n == Len(text.sents)
    IN  text.removed + Sum(n) + (IF n > 0 THEN n - 1 ELSE 0)
        + (IF text.pair = "joined" THEN 1 ELSE 0)

\* string.length
StrLen(str) ==
    LET RECURSIVE Sum(_)
        Sum(i) == IF i = 0 THEN 0 ELSE Sum(i - 1) + str[i].len
    IN  IF Len(str) = 0 THEN 0 ELSE Sum(Len(str)) + Len(str) - 1

\* the text after the replace / normalize / trim steps: its runs, whole;
\* a letter and a mark that were next to each other are one character, two
\* that the zero-width characters held apart are left as they are
Cleaned(text) ==
    [i \in 1..Len(text.sents) |->
        [sent |-> i, len |-> text.sents[i], stop |-> text.stops[i],
         pair |-> (i = 1 /\ text.pair = "apart")]]

\* a slip: the string kept whole
Substring_Whole(str, n) == str

\* str.substring(0, n)
Substring(str, n) ==
    LET RECURSIVE Take(_, _, _)
        Take(i, room, acc) ==
            IF i > Len(str) THEN acc
            ELSE LET sep == IF i = 1 THEN 0 ELSE 1
                 IN  IF room = 0 THEN acc
                     ELSE IF str[i].len <= room - sep
                          THEN Take(i + 1, room - sep - str[i].len,
                                    Append(acc, str[i]))
                          ELSE Append(acc, [str[i] EXCEPT
                                                !.len = room - sep,
                                                !.stop = FALSE,
                                                !.pair = @ /\ room - sep >= 2])
    IN  Take(1, n, <<>>)

\* the number of leading segments up to the last one that ends a sentence
LastStop(str) ==
    LET ends == {i \in 1..Len(str) : str[i].stop}
    IN  IF ends = {} THEN 0 ELSE CHOOSE i \in ends : \A j \in ends : j <= i

\* Math.max(lastIndexOf("."), lastIndexOf("!"), lastIndexOf("?"))
LastSentenceEnd(str) ==
    IF LastStop(str) = 0 THEN 0 - 1
    ELSE StrLen(SubSeq(str, 1, LastStop(str))) - 1

\* prepareTextForEmbedding(text)
PrepareTextForEmbedding(text) ==
    IF ~text.isString \/ RawLength(text) = 0 THEN <<>>
    ELSE LET processed == Cleaned(text)
         IN  IF StrLen(processed) > TruncateLength
             THEN LET cut == Substring(processed, TruncateLength)
                  IN  IF LastSentenceEnd(cut) > SentenceBreakMin
                      THEN SubSeq(cut, 1, LastStop(cut))
                      ELSE cut
             ELSE processed

\* a slip: a cleaned text of 9 characters kept
TooShort_Nine(cleanText) == StrLen(cleanText) < MinChunkLength - 1

\* a slip: a cleaned text of 10 characters dropped
TooShort_Ten(cleanText) == StrLen(cleanText) <= MinChunkLength

\* !cleanText || cleanText.length < 10
TooShort(cleanText) == StrLen(cleanText) < MinChunkLength

\* str.trim(): the spaces the string begins and ends with dropped
Trim(str) ==
    LET RECURSIVE Drop(_)
        Drop(n) == IF n > 0 /\ str[n].len = 0 THEN Drop(n - 1)
                   ELSE SubSeq(str, 1, n)
        RECURSIVE Lead(_)
        Lead(q) == IF Len(q) > 0 /\ q[1].len = 0 THEN Lead(Tail(q)) ELSE q
    IN  Lead(Drop(Len(str)))

\* cleanText.split(/(?<=[.!?])\s+/).filter((s) => s.trim().length > 0):
\* the string is cut at the spaces that follow a sentence end
Sentences(cleanText) ==
    LET RECURSIVE Split(_, _, _)
        Split(i, piece, acc) ==
            IF i > Len(cleanText) THEN Append(acc, piece)
            ELSE IF cleanText[i].stop /\ i < Len(cleanText)
                 THEN Split(i + 1, <<>>, Append(acc, Append(piece, cleanText[i])))
                 ELSE Split(i + 1, Append(piece, cleanText[i]), acc)
        NonBlank(piece) == StrLen(Trim(piece)) > 0
    IN  SelectSeq(Split(1, <<>>, <<>>), NonBlank)

\* the for loop over the sentences, then the final chunk
PackSentences(sentences) ==
    LET RECURSIVE Loop(_, _, _)
        Loop(i, currentChunk, chunks) ==
            IF i > Len(sentences)
            THEN IF currentChunk # <<>> THEN Append(chunks, currentChunk)
                 ELSE chunks
            ELSE LET trimmedSentence == Trim(sentences[i])
                     potentialChunk == currentChunk \o trimmedSentence
                     pushed == IF currentChunk # <<>>
                               THEN Append(chunks, currentChunk) ELSE chunks
                 IN  IF StrLen(potentialChunk) <= MaxChunkLength
                     THEN Loop(i + 1, potentialChunk, chunks)
                     ELSE IF StrLen(trimmedSentence) > MaxChunkLength
                          THEN Loop(i + 1,
                                    Substring(trimmedSentence, MaxChunkLength),
                                    pushed)
                          ELSE Loop(i + 1, trimmedSentence, pushed)
    IN  Loop(1, <<>>, <<>>)

\* str.substring(from, to), for from < to <= str.length: the segments that
\* have a character or a separating space in the stretch, each cut to the
\* stretch; one that gives no character stands for the space the piece
\* begins or ends with
SubstringBetween(str, from, to) ==
    LET Start(i) == IF i = 1 THEN 0 ELSE StrLen(SubSeq(str, 1, i - 1)) + 1
        End(i) == Start(i) + str[i].len
        lo == CHOOSE i \in 1..Len(str) :
                 /\ End(i) >= from
                 /\ \A j \in 1..(i - 1) : End(j) < from
        hi == CHOOSE i \in 1..Len(str) :
                 /\ Start(i) <= to
                 /\ \A j \in (i + 1)..Len(str) : Start(j) > to
    IN  [j \in 1..(hi - lo + 1) |->
            LET i == lo + j - 1
                a == IF from > Start(i) THEN from ELSE Start(i)
                b == IF to < End(i) THEN to ELSE End(i)
                n == IF b > a THEN b - a ELSE 0
            IN  [str[i] EXCEPT !.len = n,
                               !.stop = @ /\ End(i) <= to /\ n > 0,
                               !.pair = @ /\ a = Start(i) /\ n >= 2]]

\* the fallback: cleanText cut every maxLength characters
CharSplit(cleanText) ==
    LET n == StrLen(cleanText)
        k == (n + MaxChunkLength - 1) \div MaxChunkLength
    IN  [i \in 1..k |->
            SubstringBetween(cleanText, (i - 1) * MaxChunkLength,
                             IF i * MaxChunkLength < n THEN i * MaxChunkLength
                             ELSE n)]

\* a slip: every chunk kept
ValidChunk_Any(chunk) == TRUE

\* chunk && chunk.trim().length >= 10 && chunk.trim().length <= 8000
ValidChunk(chunk) ==
    /\ StrLen(Trim(chunk)) >= MinChunkLength
    /\ StrLen(Trim(chunk)) <= MaxValidChunk

\* processTextForEmbedding(text)
ProcessTextForEmbedding(text) ==
    IF ~text.isString \/ RawLength(text) = 0 THEN <<>>
    ELSE LET cleanText == PrepareTextForEmbedding(text)
         IN  IF TooShort(cleanText) THEN <<>>
             ELSE IF StrLen(cleanText) <= MaxChunkLength THEN <<cleanText>>
             ELSE LET packed == PackSentences(Sentences(cleanText))
                      chunks == IF Len(packed) = 0 THEN CharSplit(cleanText)
                                ELSE packed
                  IN  SelectSeq(chunks, ValidChunk)

\* a string the routine returned, given to the routine as its text: a
\* letter and a mark the string begins with are next to each other, and
\* the cleaning will make one character of them
AsText(str) ==
    LET joined == Len(Trim(str)) > 0 /\ str[1].pair
    IN  [isString |-> TRUE,
         removed |-> Len(str) - Len(Trim(str)),
         pair |-> IF joined THEN "joined" ELSE "none",
         sents |-> [i \in 1..Len(Trim(str)) |->
                       IF i = 1 /\ joined THEN str[i].len - 1 ELSE str[i].len],
         stops |-> [i \in 1..Len(Trim(str)) |-> str[i].stop]]

InitChunk ==
    /\ cText \in ChunkerInputs
    /\ cPc = "start"
    /\ cClean = <<>>
    /\ cChunks = <<>>
    /\ cAgain = <<>>

\* the chunker at rest
InitChunkIdle ==
    /\ cText = [isString |-> FALSE, removed |-> 0, pair |-> "none",
                sents |-> <<>>, stops |-> <<>>]
    /\ cPc = "idle"
    /\ cClean = <<>>
    /\ cChunks = <<>>
    /\ cAgain = <<>>

(***************************************************************************)
(* The vector store: Qdrant's collection news_embeddings as the HTTP       *)
(* helpers of config/database.js see it.  A collection has a vector size   *)
(* (0 when its configuration holds no single size, as with named vectors), *)
(* a distance and a set of points.                                         *)
(***************************************************************************)
NoCollection == [exists |-> FALSE, size |-> 0, distance |-> "none", points |-> {}]

\* currentSize before getCollection has answered, or when it threw
NotRead == 0 - 1

Sizes == {0, 384, VectorSize}
Distances == {"Cosine", "Euclid"}
PointSets == {{}, {1}}

\* the collections the service may hold when initializeQdrant is called
Collections ==
    {NoCollection} \cup
    [exists : {TRUE}, size : Sizes, distance : Distances, points : PointSets]

\* createCollection's body: vectors: {size: 768, distance: "Cosine"}
CreatedCollection ==
    [exists |-> TRUE, size |-> VectorSize, distance |-> "Cosine", points |-> {}]

\* currentSize !== 768
SizeMismatch(currentSize) == currentSize # VectorSize

\* the scores, in hundredths, the points of a collection may have to the
\* query: cosine similarities, or Euclidean distances, which are not
\* negative
Scores(distance) ==
    IF distance = "Cosine" THEN {0 - 30, 69, 70, 71, 100}
    ELSE {0, 69, 70, 71, 100}

\* the collections searched: points 1..n, each with its score and payload
PointChoices(distance) ==
    UNION {{ {[id |-> i, score |-> f[i], payload |-> i] : i \in 1..n} :
               f \in [1..n -> Scores(distance)]} : n \in 0..MaxPoints}

\* the body of the search request: limit, with_payload, score_threshold
SearchParams(limit) ==
    [limit |-> limit, score_threshold |-> ScoreThreshold]

\* the sequences over a set that name each element at most once
RECURSIVE Arrangements(_)
Arrangements(S) ==
    {<<>>} \cup UNION {{<<x>> \o q : q \in Arrangements(S \ {x})} : x \in S}

\* the first score is at least as good as the second: a larger similarity,
\* a smaller distance
AsGood(distance, x, y) == IF distance = "Cosine" THEN x >= y ELSE x <= y

\* The search of the Qdrant service, which is no code of the repository:
\* what it may put in the result of a search request, as its documentation
\* has it.  The points whose score is as good as score_threshold, best
\* first, cut to the limit, the best ones kept; for a collection with
\* Euclid distance the score is the distance, so that these are the points
\* at most score_threshold away, nearest first.
QdrantSearch(distance, points, params) ==
    LET hits == {pt \in points :
                    AsGood(distance, pt.score, params.score_threshold)}
        n == IF params.limit < Cardinality(hits) THEN params.limit
             ELSE Cardinality(hits)
    IN  {q \in Arrangements(hits) :
            /\ Len(q) = n
            /\ \A i \in 1..(n - 1) : AsGood(distance, q[i].score, q[i + 1].score)
            /\ \A pt \in hits :
                  (\A i \in 1..n : q[i] # pt) =>
                      \A i \in 1..n : AsGood(distance, q[i].score, pt.score)}

\* the responses the search request may get: a refusal, or the result
Responses(distance, points, params) ==
    {[ok |-> FALSE, result |-> <<>>]} \cup
    {[ok |-> TRUE, result |-> q] : q \in QdrantSearch(distance, points, params)}

\* qdrantHttp.searchPoints: throws when !response.ok, else returns the
\* result of response.json() as it came
SearchPoints(response) ==
    [thrown |-> ~response.ok, result |-> response.result]

\* result.result.map((point) => ({id, score, metadata: point.payload}))
MapPoints(result) ==
    [i \in 1..Len(result) |->
        [id |-> result[i].id, score |-> result[i].score,
         metadata |-> result[i].payload]]

InitSearch ==
    /\ sDistance \in Distances
    /\ sPoints \in PointChoices(sDistance)
    /\ sLimit \in 1..MaxK
    /\ sPc = "start"
    /\ sAnswered = FALSE
    /\ sResult = <<>>

InitSearchIdle ==
    /\ sDistance = "Cosine"
    /\ sPoints = {}
    /\ sLimit = 1
    /\ sPc = "idle"
    /\ sAnswered = FALSE
    /\ sResult = <<>>

Runs == 1..NumRuns

\* an article, told by the run that fetched it and its index in that run
Article(run, i) == [run |-> run, i |-> i]

\* a slip: the loop index left out of the id
NumericId_NoIndex(now, i) == now

\* const numericId = Date.now() + i
NumericId(now, i) == now + i

\* upsertPoints: the point with this id is written, replacing one that has it
Upsert(points, id, payload) ==
    {pt \in points : pt.id # id} \cup {[id |-> id, payload |-> payload]}

\* the collection as the script meets it: none, one of another vector
\* size, or one of the right size
IngestCollections ==
    {[exists |-> FALSE, size |-> 0], [exists |-> TRUE, size |-> 384],
     [exists |-> TRUE, size |-> VectorSize]}

\* await Promise.all([initializeRedis(), initializeQdrant()]) as run() sees
\* it: it throws as soon as one of the two has thrown, and returns when
\* both have returned
Settled(at, init, redis) ==
    IF at # "init" THEN at
    ELSE IF init = "thrown" \/ redis = "failed" THEN "thrown"
    ELSE IF init = "done" /\ redis = "ok" THEN "loop"
    ELSE "init"

\* run() is entered: await initializeServices() comes first, and both
\* initializeRedis and initializeQdrant have sent their first request
InitIngest ==
    /\ clock = 1
    /\ gPc = [run \in Runs |-> "init"]
    /\ gInit = [run \in Runs |-> "health"]
    /\ gResp = [run \in Runs |-> "pending"]
    /\ gSeen = [run \in Runs |-> NotRead]
    /\ gRedis = [run \in Runs |-> "ping"]
    /\ gI = [run \in Runs |-> 0]
    /\ gId = [run \in Runs |-> 0]
    /\ gLastId = [run \in Runs |-> 0]
    /\ gColl \in IngestCollections
    /\ gPoints = {}
    /\ gStored = {}

InitIngestIdle ==
    /\ clock = 0
    /\ gPc = [run \in Runs |-> "idle"]
    /\ gInit = [run \in Runs |-> "idle"]
    /\ gResp = [run \in Runs |-> "pending"]
    /\ gSeen = [run \in Runs |-> NotRead]
    /\ gRedis = [run \in Runs |-> "idle"]
    /\ gI = [run \in Runs |-> 0]
    /\ gId = [run \in Runs |-> 0]
    /\ gLastId = [run \in Runs |-> 0]
    /\ gColl = [exists |-> FALSE, size |-> 0]
    /\ gPoints = {}
    /\ gStored = {}

Inits == 1..NumInits

\* startServer of app.js, run of the ingestion script
Callers == {"server", "script"}

\* the first start is under way: initializeRedis and initializeQdrant have
\* sent their first request
InitQdrant ==
    /\ qColl \in Collections
    /\ qPc = [k \in Inits |-> IF k = 1 THEN "health" ELSE "idle"]
    /\ qRedis = [k \in Inits |-> IF k = 1 THEN "ping" ELSE "idle"]
    /\ qKind \in {f \in [Inits -> Callers \cup {"none"}] :
                     \A k \in Inits : f[k] = "none" <=> k # 1}
    /\ qCalls = 1
    /\ qBefore = [k \in Inits |-> IF k = 1 THEN qColl ELSE NoCollection]
    /\ qResp = [k \in Inits |-> "pending"]
    /\ qSeen = [k \in Inits |-> NotRead]
    /\ qLog = [k \in Inits |-> <<>>]

\* initializeQdrant at rest
InitQdrantIdle ==
    /\ qColl = NoCollection
    /\ qPc = [k \in Inits |-> "idle"]
    /\ qRedis = [k \in Inits |-> "idle"]
    /\ qKind = [k \in Inits |-> "none"]
    /\ qCalls = 0
    /\ qBefore = [k \in Inits |-> NoCollection]
    /\ qResp = [k \in Inits |-> "pending"]
    /\ qSeen = [k \in Inits |-> NotRead]
    /\ qLog = [k \in Inits |-> <<>>]

\* the vector store at rest
InitVecIdle == InitQdrantIdle /\ InitSearchIdle /\ InitIngestIdle

(***************************************************************************)
(* The catch blocks of the ChatController: what a failing operation sends  *)
(* to the caller.                                                          *)
(***************************************************************************)
Operations ==
    {"sendMessage", "sendMessageStream", "getChatHistory", "clearChatHistory",
     "createSession", "getSession"}

Environments == {"development", "production", "test", "unset"}

\* the messages of the errors the operations meet
ErrorMessages ==
    {"connect ECONNREFUSED 127.0.0.1:6379", "HTTP 403: invalid api-key",
     "Internal server error"}

\* the "error" field of the 500 response
ErrorText(operation) ==
    CASE operation = "sendMessage" -> "Failed to process message"
      [] operation = "sendMessageStream" -> "Failed to process message"
      [] operation = "getChatHistory" -> "Failed to retrieve chat history"
      [] operation = "clearChatHistory" -> "Failed to clear chat history"
      [] operation = "createSession" -> "Failed to create session"
      [] operation = "getSession" -> "Failed to retrieve session"

\* a slip: error.message sent whatever the configuration
ErrorDetail_Echo(env, message) == message

\* process.env.NODE_ENV === "development" ? error.message
\*                                        : "Internal server error"
ErrorDetail(env, message) ==
    IF env = "development" THEN message ELSE "Internal server error"

\* what the catch block of the operation sends: the 500 response, or for
\* sendMessageStream the 'error' event
CatchResponse(operation, env, error) ==
    IF operation = "sendMessageStream"
    THEN [status |-> 200, type |-> "error", error |-> ErrorText(operation),
          message |-> "none"]
    ELSE [status |-> 500, type |-> "json", error |-> ErrorText(operation),
          message |-> ErrorDetail(env, error)]

NoBody == [status |-> 0, type |-> "none", error |-> "none", message |-> "none"]

InitFail ==
    /\ fEnv \in Environments
    /\ fOp \in Operations
    /\ fMsgA \in ErrorMessages
    /\ fMsgB \in ErrorMessages
    /\ fPc = "start"
    /\ fBodyA = NoBody
    /\ fBodyB = NoBody

InitFailIdle ==
    /\ fEnv = "unset"
    /\ fOp = "sendMessage"
    /\ fMsgA = "Internal server error"
    /\ fMsgB = "Internal server error"
    /\ fPc = "idle"
    /\ fBodyA = NoBody
    /\ fBodyB = NoBody

(***************************************************************************)
(* calculateSimilarity(vectorA, vectorB).  A vector is missing (null,      *)
(* undefined) or an array of numbers.  The numbers are doubles, kept as    *)
(* records [k, n]:                                                         *)
(*   "num"   the integer n, small enough that sums and products of such    *)
(*           numbers are exact;                                            *)
(*   "huge"  n times 1e200 (n # 0): finite, absorbs a "num" added to it,   *)
(*           and its product with another "huge" overflows;                *)
(*   "inf"   Infinity (n = 1) or -Infinity (n = -1);                       *)
(*   "nan"   NaN (n = 0);                                                  *)
(*   "root"  Math.sqrt of the integer n >= 0, kept by its square.          *)
(* The value returned is 0, NaN, an infinity, or the quotient the code     *)
(* forms, kept as dotProduct over the magnitude.                           *)
(***************************************************************************)
Num(n) == [k |-> "num", n |-> n]
Huge == [k |-> "huge", n |-> 1]
PosInfinity == [k |-> "inf", n |-> 1]
NaN == [k |-> "nan", n |-> 0]

Components == {Num(0 - 1), Num(0), Num(2), Huge, PosInfinity}

RECURSIVE Arrays(_)
Arrays(n) ==
    IF n = 0 THEN {<<>>}
    ELSE Arrays(n - 1) \cup
         {Append(q, x) : q \in {y \in Arrays(n - 1) : Len(y) = n - 1},
                         x \in Components}

MissingVector == [given |-> FALSE, v |-> <<>>]

Vectors == {MissingVector} \cup [given : {TRUE}, v : Arrays(MaxDim)]

\* the sign of a number that is not NaN: -1, 0 or 1
Sign(x) == IF x.n > 0 THEN 1 ELSE IF x.n < 0 THEN 0 - 1 ELSE 0

\* x * y in doubles
Mul(x, y) ==
    IF x.k = "nan" \/ y.k = "nan" THEN NaN
    ELSE IF Sign(x) = 0 \/ Sign(y) = 0
         THEN IF x.k = "inf" \/ y.k = "inf" THEN NaN ELSE Num(0)
         ELSE IF x.k = "inf" \/ y.k = "inf" \/ (x.k = "huge" /\ y.k = "huge")
              THEN [k |-> "inf", n |-> Sign(x) * Sign(y)]
              ELSE IF x.k = "huge" \/ y.k = "huge"
                   THEN [k |-> "huge", n |-> x.n * y.n]
                   ELSE Num(x.n * y.n)

\* x + y in doubles
Add(x, y) ==
    IF x.k = "nan" \/ y.k = "nan" THEN NaN
    ELSE IF x.k = "inf" /\ y.k = "inf"
         THEN IF x.n = y.n THEN x ELSE NaN
         ELSE IF x.k = "inf" THEN x
         ELSE IF y.k = "inf" THEN y
         ELSE IF x.k = "huge" /\ y.k = "huge"
              THEN IF x.n + y.n = 0 THEN Num(0)
                   ELSE [k |-> "huge", n |-> x.n + y.n]
              ELSE IF x.k = "huge" THEN x
              ELSE IF y.k = "huge" THEN y
              ELSE Num(x.n + y.n)

\* Math.sqrt(x), for a sum of squares x
Sqrt(x) ==
    IF x.k = "nan" \/ Sign(x) < 0 THEN NaN
    ELSE IF x.k = "inf" THEN x
    ELSE [k |-> "root", n |-> x.n]

\* Math.sqrt(normA) * Math.sqrt(normB): the product of two roots is the
\* root of the product, and 0 * Infinity is NaN
Magnitude(normA, normB) ==
    LET x == Sqrt(normA)
        y == Sqrt(normB)
    IN  IF x.k = "nan" \/ y.k = "nan" THEN NaN
        ELSE IF x.k = "root" /\ y.k = "root"
             THEN [k |-> "root", n |-> x.n * y.n]
             ELSE IF Sign(x) = 0 \/ Sign(y) = 0 THEN NaN ELSE PosInfinity

\* the for loop: the sum of a[i] * b[i], from 0
Dot(a, b) ==
    LET RECURSIVE Sum(_)
        Sum(i) == IF i = 0 THEN Num(0) ELSE Add(Sum(i - 1), Mul(a[i], b[i]))
    IN  Sum(Len(a))

Thrown == [raised |-> TRUE, value |-> "none", dotProduct |-> Num(0), magnitude |-> Num(0)]

\* a value returned
Returned(value, dotProduct, magnitude) ==
    [raised |-> FALSE, value |-> value, dotProduct |-> dotProduct, magnitude |-> magnitude]

\* magnitude === 0 ? 0 : dotProduct / magnitude
Quotient(dotProduct, magnitude) ==
    IF magnitude.k = "root" /\ magnitude.n = 0
    THEN Returned("zero", dotProduct, magnitude)
    ELSE IF magnitude.k = "nan" \/ dotProduct.k = "nan"
              \/ (magnitude.k = "inf" /\ dotProduct.k = "inf")
         THEN Returned("nan", dotProduct, magnitude)
         ELSE IF magnitude.k = "inf" \/ Sign(dotProduct) = 0
              THEN Returned("zero", dotProduct, magnitude)
              ELSE IF dotProduct.k = "inf"
                   THEN Returned("infinity", dotProduct, magnitude)
                   ELSE Returned("quotient", dotProduct, magnitude)

\* calculateSimilarity(vectorA, vectorB)
CalculateSimilarity(a, b) ==
    IF ~a.given \/ ~b.given \/ Len(a.v) # Len(b.v)
    THEN Thrown
    ELSE Quotient(Dot(a.v, b.v), Magnitude(Dot(a.v, a.v), Dot(b.v, b.v)))

InitSim ==
    /\ vectorA \in Vectors
    /\ vectorB \in Vectors
    /\ simPc = "start"
    /\ simResult = Thrown

InitSimIdle ==
    /\ vectorA = MissingVector
    /\ vectorB = MissingVector
    /\ simPc = "idle"
    /\ simResult = Thrown

(***************************************************************************)
(* routes/chat.js: the handler mounted at POST /api/chat/message.          *)
(***************************************************************************)

\* vectorUtils.searchSimilar(queryEmbedding, 3)
RouteLimit == 3

\* nothing sent yet
NoResponse_Route == [status |-> 0, sent |-> FALSE, sources |-> <<>>]

\* res.status(code).json({error})
RouteError(code) == [status |-> code, sent |-> TRUE, sources |-> <<>>]

\* relevantArticles.map((a) => ({title, link, score}))
RouteSources(relevantArticles) ==
    [i \in 1..Len(relevantArticles) |->
        [title |-> relevantArticles[i].metadata,
         score |-> relevantArticles[i].score]]

\* res.json({response, sources, timestamp})
RouteAnswer(relevantArticles) ==
    [status |-> 200, sent |-> TRUE, sources |-> RouteSources(relevantArticles)]

InitRoute ==
    /\ rtMessage \in BOOLEAN
    /\ rtNews \in BOOLEAN
    /\ rtDistance \in Distances
    /\ rtPoints \in PointChoices(rtDistance)
    /\ rtPc = "start"
    /\ rtCalls = {}
    /\ rtArticles = <<>>
    /\ rtResponse = NoResponse_Route

InitRouteIdle ==
    /\ rtMessage = FALSE
    /\ rtNews = FALSE
    /\ rtDistance = "Cosine"
    /\ rtPoints = {}
    /\ rtPc = "idle"
    /\ rtCalls = {}
    /\ rtArticles = <<>>
    /\ rtResponse = NoResponse_Route

(***************************************************************************)
(* generateEmbeddings(texts): the request it builds, character by          *)
(* character.  A character is told by its class, that is by which of the   *)
(* code's tests it meets:                                                  *)
(*   control       U+0000-0008, 000E-001F, 007F-009F: removed by the first *)
(*                 replace, no whitespace                                  *)
(*   controlSpace  U+000B, U+000C: removed by the first replace, and       *)
(*                 whitespace for trim()                                   *)
(*   zeroWidth     U+200B-200D: removed by the zero-width replace, no      *)
(*                 whitespace                                              *)
(*   bom           U+FEFF: removed by the zero-width replace, and          *)
(*                 whitespace for trim()                                   *)
(*   space         the other whitespace (space, tab, line feed, ...)       *)
(*   base          a letter that normalize("NFC") composes with the mark   *)
(*                 that follows it at once: 'a', 'e' or 'o'                *)
(*   circumflex    the combining circumflex U+0302                         *)
(*   acute         the combining acute U+0301                              *)
(*   circumflexed  a letter with circumflex, U+00E2, U+00EA or U+00F4:     *)
(*                 what normalize("NFC") makes of a base and a circumflex, *)
(*                 and composed again with an acute that follows it        *)
(*   split         a character that normalize("NFC") replaces by two       *)
(*                 (U+0958, a composition exclusion)                       *)
(*   printable     a character that normalize("NFC") leaves alone,         *)
(*                 whatever its neighbours: a digit, 'x', and the letters  *)
(*                 already composed with an acute (U+00E9, U+1EBF)         *)
(***************************************************************************)
CharClasses ==
    {"control", "controlSpace", "zeroWidth", "bom", "space", "base",
     "circumflex", "acute", "circumflexed", "split", "printable"}

\* the classes String.prototype.trim and the regex class \s take as whitespace
WhiteSpace == {"space", "controlSpace", "bom"}

\* /[\u0000-\u0008\u000B\u000C\u000E-\u001F\u007F-\u009F]/
ControlChars == {"control", "controlSpace"}

\* /[\u200B-\u200D\uFEFF]/
ZeroWidthChars == {"zeroWidth", "bom"}

RECURSIVE CharSeqs(_)
CharSeqs(n) ==
    IF n = 0 THEN {<<>>}
    ELSE CharSeqs(n - 1) \cup
         {Append(q, c) : q \in {x \in CharSeqs(n - 1) : Len(x) = n - 1},
                         c \in CharClasses}

\* a string of at most n characters, or a value that is no string
InputTexts(n) ==
    [isString : {TRUE}, chars : CharSeqs(n)] \cup
    {[isString |-> FALSE, chars |-> <<>>]}

\* the arrays of at most n texts that hold at most k characters in all
RECURSIVE InputArrays(_, _)
InputArrays(n, k) ==
    IF n = 0 THEN {<<>>}
    ELSE {<<>>} \cup
         UNION {{<<t>> \o q : q \in InputArrays(n - 1, k - Len(t.chars))} :
                t \in InputTexts(k)}

\* String.prototype.trim: whitespace dropped at both ends
TrimChars(chars) ==
    LET kept == {i \in 1..Len(chars) : chars[i] \notin WhiteSpace}
    IN  IF kept = {} THEN <<>>
        ELSE SubSeq(chars, CHOOSE i \in kept : \A j \in kept : i <= j,
                           CHOOSE i \in kept : \A j \in kept : i >= j)

\* the filter predicate of generateEmbeddings, on the characters
ValidChars(text) ==
    /\ text.isString
    /\ Len(text.chars) > 0
    /\ Len(TrimChars(text.chars)) > 0
    /\ Len(TrimChars(text.chars)) <= MaxTextLength

\* processed.replace(/\s+/g, " "): every run of whitespace becomes one
\* space
CollapseSpaces(chars) ==
    LET Kept(i) ==
            ~(chars[i] \in WhiteSpace /\ i > 1 /\ chars[i - 1] \in WhiteSpace)
        AsSpace(c) == IF c \in WhiteSpace THEN "space" ELSE c
        RECURSIVE Keep(_)
        Keep(i) == IF i = 0 THEN <<>>
                   ELSE IF Kept(i) THEN Append(Keep(i - 1), AsSpace(chars[i]))
                   ELSE Keep(i - 1)
    IN  Keep(Len(chars))

\* processed.normalize("NFC"): a mark is composed with the character before
\* it when the two have a composite, and the composite is composed again
\* with the mark after it (e, U+0302, U+0301 become U+1EBF); a character
\* under composition exclusion becomes two
Normalize(chars) ==
    LET Composite(last, c) ==
            IF last = "base" /\ c = "circumflex" THEN "circumflexed"
            ELSE IF last \in {"base", "circumflexed"} /\ c = "acute"
                 THEN "printable"
                 ELSE "none"
        RECURSIVE Norm(_, _)
        Norm(i, acc) ==
            IF i > Len(chars) THEN acc
            ELSE IF chars[i] = "split"
                 THEN Norm(i + 1, acc \o <<"printable", "printable">>)
                 ELSE IF Len(acc) > 0 /\ Composite(acc[Len(acc)], chars[i]) # "none"
                      THEN Norm(i + 1, [acc EXCEPT ![Len(acc)] =
                                            Composite(@, chars[i])])
                      ELSE Norm(i + 1, Append(acc, chars[i]))
    IN  Norm(1, <<>>)

\* prepareTextForEmbedding on the characters: control characters removed,
\* the text normalized, then zero-width characters removed, whitespace
\* collapsed, trimmed; the last
\* replace (/[^\x20-\x7E\u00A0-\uFFFF]/g) finds nothing left to remove, and
\* the texts tried are far below the 8000 characters of the cut
CleanChars(chars) ==
    LET IsNotControl(c) == c \notin ControlChars
        IsNotZeroWidth(c) == c \notin ZeroWidthChars
    IN  TrimChars(CollapseSpaces(
            SelectSeq(Normalize(SelectSeq(chars, IsNotControl)),
                      IsNotZeroWidth)))

\* validTexts.map((text) => this.prepareTextForEmbedding(text))
ProcessedTexts(items) ==
    LET validTexts == SelectSeq(items, ValidChars)
    IN  [k \in 1..Len(validTexts) |-> CleanChars(validTexts[k].chars)]

InitSend ==
    /\ eTexts \in (InputArrays(MaxInputs, MaxChars) \ {<<>>})
    /\ ePc = "start"
    /\ eInput = <<>>

InitSendIdle ==
    /\ eTexts = <<>>
    /\ ePc = "idle"
    /\ eInput = <<>>

\* the vector store, the failing operations, the similarity helper, the
\* route and the request builder at rest
InitRestIdle ==
    InitVecIdle /\ InitFailIdle /\ InitSimIdle /\ InitRouteIdle /\ InitSendIdle

(***************************************************************************)
(* generateEmbeddingsWithRetry(texts, maxRetries)                          *)
(***************************************************************************)

\* entering the function: let lastError; attempt = 1
StartRetry(input, mr) ==
    /\ rInput' = input
    /\ maxRetries' = mr
    /\ attempt' = 1
    /\ rpc' = "wait"
    /\ lastError' = NoError
    /\ rResult' = Null
    /\ provCalls' = 0
    /\ waited' = 0
    /\ outcomes' = <<>>

\* the caller has taken the result: the call's frame is gone
EndRetry ==
    /\ rInput' = [isArray |-> TRUE, items |-> <<>>]
    /\ maxRetries' = DefaultMaxRetries
    /\ attempt' = 1
    /\ rpc' = "idle"
    /\ lastError' = NoError
    /\ rResult' = Null
    /\ provCalls' = 0
    /\ waited' = 0
    /\ outcomes' = <<>>

\* "Don't retry on certain errors": the throw inside the catch block
AbortsRetry(error, att, mr) ==
    IF error.response # NoResponse
    THEN \/ error.response \in {401, 403}
         \/ (error.response = 422 /\ att = mr)
    ELSE FALSE

\* a slip: an off-by-one loop bound, one attempt too many
RetryLoopContinues_OneMore(att, mr) == att <= mr

\* the loop header: attempt++ ; attempt <= maxRetries
RetryLoopContinues(att, mr) == att + 1 <= mr

\* await new Promise((resolve) => setTimeout(resolve, totalDelay))
RetryWait ==
    /\ rpc = "wait"
    /\ waited' = waited + TotalDelay(attempt)
    /\ rpc' = "call"
    /\ UNCHANGED <<op, texts, batchSize, bpc, bi, bk, allEmbeddings, rInput,
                   maxRetries, attempt, lastError, rResult, provCalls, outcomes>>
    /\ UNCHANGED <<chatVars, storeVars, chunkVars, vecVars, failVars>>

\* one attempt: generateEmbeddings(texts), then return, or the catch block
RetryAttempt ==
    /\ rpc = "call"
    /\ \E outcome \in ProviderOutcomes :
         LET g == GenerateEmbeddings(rInput, outcome)
         IN  /\ provCalls' = provCalls + (IF g.called THEN 1 ELSE 0)
             /\ outcomes' = Append(outcomes, IF g.called THEN outcome ELSE NoCall)
             /\ IF g.ok
                THEN /\ rpc' = "returned"
                     /\ rResult' = g.value
                     /\ UNCHANGED <<lastError, attempt>>
                ELSE /\ lastError' = g.error
                     /\ IF AbortsRetry(g.error, attempt, maxRetries)
                        THEN /\ rpc' = "thrown"
                             /\ rResult' = g.error
                             /\ UNCHANGED attempt
                        ELSE IF RetryLoopContinues(attempt, maxRetries)
                        THEN /\ attempt' = attempt + 1
                             /\ rpc' = "wait"
                             /\ UNCHANGED rResult
                        ELSE /\ rpc' = "thrown"          \* throw lastError
                             /\ rResult' = g.error
                             /\ attempt' = attempt + 1
    /\ UNCHANGED <<op, texts, batchSize, bpc, bi, bk, allEmbeddings, rInput,
                   maxRetries, waited>>
    /\ UNCHANGED <<chatVars, storeVars, chunkVars, vecVars, failVars>>

(***************************************************************************)
(* batchGenerateEmbeddings(texts, batchSize, delayMs)                      *)
(***************************************************************************)

\* a slip: the slice runs to the end of the array
Slice_ToEnd(seq, i, n) == SubSeq(seq, i + 1, Len(seq))

\* texts.slice(i, i + batchSize), i counted from 0
Slice(seq, i, n) ==
    SubSeq(seq, i + 1, IF i + n < Len(seq) THEN i + n ELSE Len(seq))

CurrentBatch == Slice(texts, bi, batchSize)

\* ...(Array.isArray(embeddings[0]) ? embeddings : [embeddings]): the value
\* returned for an array is a non-empty array of vectors, so its first
\* element is an array
SpreadEmbeddings(embeddings) == embeddings

\* the loop header, and the call for the next batch
BatchLoop ==
    /\ op = "batch"
    /\ bpc = "loop"
    /\ IF bi < Len(texts)
       THEN /\ StartRetry([isArray |-> TRUE, items |-> CurrentBatch],
                          DefaultMaxRetries)
            /\ bpc' = "batchRetry"
       ELSE /\ bpc' = "done"
            /\ UNCHANGED <<rInput, maxRetries, attempt, rpc, lastError,
                           rResult, provCalls, waited, outcomes>>
    /\ UNCHANGED <<op, texts, batchSize, bi, bk, allEmbeddings>>
    /\ UNCHANGED <<chatVars, storeVars, chunkVars, vecVars, failVars>>

\* if (i + batchSize < texts.length)
MoreBatches(i, size, n) == i + size < n

\* the batch call returned: push its vectors; then the rate-limiting delay
\* when there is a batch after this one, else the loop header
BatchReturned ==
    /\ bpc = "batchRetry"
    /\ rpc = "returned"
    /\ allEmbeddings' = allEmbeddings \o SpreadEmbeddings(rResult)
    /\ bi' = bi + batchSize
    /\ bpc' = IF MoreBatches(bi, batchSize, Len(texts)) THEN "delay" ELSE "loop"
    /\ EndRetry
    /\ UNCHANGED <<op, texts, batchSize, bk>>
    /\ UNCHANGED <<chatVars, storeVars, chunkVars, vecVars, failVars>>

\* await new Promise((resolve) => setTimeout(resolve, delayMs)) is over
BatchDelay ==
    /\ bpc = "delay"
    /\ bpc' = "loop"
    /\ UNCHANGED <<op, texts, batchSize, bi, bk, allEmbeddings, rInput,
                   maxRetries, attempt, rpc, lastError, rResult, provCalls,
                   waited, outcomes>>
    /\ UNCHANGED <<chatVars, storeVars, chunkVars, vecVars, failVars>>

\* the batch call threw: the catch block, individual processing
BatchThrown ==
    /\ bpc = "batchRetry"
    /\ rpc = "thrown"
    /\ bk' = 1
    /\ bpc' = "items"
    /\ EndRetry
    /\ UNCHANGED <<op, texts, batchSize, bi, allEmbeddings>>
    /\ UNCHANGED <<chatVars, storeVars, chunkVars, vecVars, failVars>>

\* for (const text of batch): the call for the next item, or the loop's end
ItemLoop ==
    /\ bpc = "items"
    /\ IF bk <= Len(CurrentBatch)
       THEN /\ StartRetry([isArray |-> FALSE, items |-> <<CurrentBatch[bk]>>],
                          DefaultMaxRetries)
            /\ bpc' = "itemRetry"
            /\ UNCHANGED bi
       ELSE /\ bi' = bi + batchSize
            /\ bpc' = "loop"
            /\ UNCHANGED <<rInput, maxRetries, attempt, rpc, lastError,
                           rResult, provCalls, waited, outcomes>>
    /\ UNCHANGED <<op, texts, batchSize, bk, allEmbeddings>>
    /\ UNCHANGED <<chatVars, storeVars, chunkVars, vecVars, failVars>>

\* the individual call returned: push the vector (and wait one second)
ItemReturned ==
    /\ bpc = "itemRetry"
    /\ rpc = "returned"
    /\ allEmbeddings' = Append(allEmbeddings, rResult)
    /\ bk' = bk + 1
    /\ bpc' = "items"
    /\ EndRetry
    /\ UNCHANGED <<op, texts, batchSize, bi>>
    /\ UNCHANGED <<chatVars, storeVars, chunkVars, vecVars, failVars>>

\* the individual call threw: push null
ItemThrown ==
    /\ bpc = "itemRetry"
    /\ rpc = "thrown"
    /\ allEmbeddings' = Append(allEmbeddings, Null)
    /\ bk' = bk + 1
    /\ bpc' = "items"
    /\ EndRetry
    /\ UNCHANGED <<op, texts, batchSize, bi>>
    /\ UNCHANGED <<chatVars, storeVars, chunkVars, vecVars, failVars>>

(***************************************************************************)
(* The embedding client: one call, of either function.                     *)
(***************************************************************************)
RetryInputs ==
    {[isArray |-> FALSE, items |-> <<t>>] : t \in SingleTexts}
    \cup {[isArray |-> TRUE, items |-> a] : a \in TextArrays(2)}

InitRetryCall ==
    /\ op = "retry"
    /\ texts = <<>>
    /\ batchSize = DefaultBatchSize
    /\ bpc = "none"
    /\ bi = 0
    /\ bk = 0
    /\ allEmbeddings = <<>>
    /\ rInput \in RetryInputs
    /\ maxRetries \in 1..MaxRetriesArg
    /\ attempt = 1
    /\ rpc = "wait"
    /\ lastError = NoError
    /\ rResult = Null
    /\ provCalls = 0
    /\ waited = 0
    /\ outcomes = <<>>

InitBatchCall ==
    /\ op = "batch"
    /\ texts \in TextArrays(MaxTexts)
    /\ batchSize \in BatchSizes
    /\ bpc = "loop"
    /\ bi = 0
    /\ bk = 0
    /\ allEmbeddings = <<>>
    /\ rInput = [isArray |-> TRUE, items |-> <<>>]
    /\ maxRetries = DefaultMaxRetries
    /\ attempt = 1
    /\ rpc = "idle"
    /\ lastError = NoError
    /\ rResult = Null
    /\ provCalls = 0
    /\ waited = 0
    /\ outcomes = <<>>

InitEmbed == InitRetryCall \/ InitBatchCall

NextEmbed ==
    \/ RetryWait
    \/ RetryAttempt
    \/ BatchLoop
    \/ BatchReturned
    \/ BatchDelay
    \/ BatchThrown
    \/ ItemLoop
    \/ ItemReturned
    \/ ItemThrown

(***************************************************************************)
(* The conversation store: the Redis commands sessionUtils issues on the   *)
(* two keys of one session id.                                             *)
(***************************************************************************)
Req == 1..NumReq

\* no key session:<id>; lapsed (history): the key was removed by its expiry
\* and createSession has not run since
Absent ==
    [exists |-> FALSE, hasId |-> FALSE, createdAt |-> 0, messagesCount |-> 0,
     ttl |-> FALSE, lapsed |-> FALSE]

\* HSET key {id, createdAt, messagesCount: 0}: writes the three fields, keeps
\* the expiry of a key that exists; createdAt is told by the writing request
Hset(s, r) ==
    [exists |-> TRUE, hasId |-> TRUE, createdAt |-> r, messagesCount |-> 0,
     ttl |-> s.ttl, lapsed |-> FALSE]

\* EXPIRE key ttl: sets the expiry of a key that exists
ExpireKey(s) == IF s.exists THEN [s EXCEPT !.ttl = TRUE] ELSE s

\* HINCRBY key messagesCount 1: creates the hash, with that field alone, when
\* the key does not exist
Hincrby(s) ==
    IF s.exists
    THEN [s EXCEPT !.messagesCount = @ + 1]
    ELSE [exists |-> TRUE, hasId |-> FALSE, createdAt |-> 0, messagesCount |-> 1,
          ttl |-> FALSE, lapsed |-> s.lapsed]

\* LPUSH key value
Lpush(list, m) == <<m>> \o list

Min(a, b) == IF a <= b THEN a ELSE b

Max(a, b) == IF a >= b THEN a ELSE b

\* LRANGE key start stop: both ends inclusive, zero-based; a negative index
\* counts from the tail of the list (-1 is the last element)
Lrange(list, start, stop) ==
    LET n == Len(list)
        a == IF start < 0 THEN Max(n + start, 0) ELSE start
        b == IF stop < 0 THEN n + stop ELSE Min(stop, n - 1)
    IN  IF a > b THEN <<>> ELSE [i \in 1..(b - a + 1) |-> list[a + i]]

Reverse(seq) == [i \in 1..Len(seq) |-> seq[Len(seq) + 1 - i]]

\* getMessages(sessionId, limit): lrange(messagesKey, 0, limit - 1), reversed
GetMessagesResult(list, limit) == Reverse(Lrange(list, 0, limit - 1))

\* what has been sent to the caller: a JSON response or a stream event
Ev(t, d) == [type |-> t, data |-> d]

Modes == {"sync", "stream"}

\* req.body as the validation reads it: whether message and sessionId are
\* truthy, whether message is a string, the length of message.trim()
Message(t, s, n) == [truthy |-> t, isString |-> s, trimLen |-> n]

\* undefined, "", 5, "   ", "hello"
Messages ==
    {Message(FALSE, FALSE, 0), Message(FALSE, TRUE, 0), Message(TRUE, FALSE, 0),
     Message(TRUE, TRUE, 0), Message(TRUE, TRUE, 5)}

SessionIds == [truthy : BOOLEAN]

Bodies == [message : Messages, sessionId : SessionIds]

OkBody == [message |-> Message(TRUE, TRUE, 5), sessionId |-> [truthy |-> TRUE]]

\* a slip: a blank message let through
MessageRejected_NoTrim(message) == ~message.truthy \/ ~message.isString

\* !message || typeof message !== "string" || message.trim().length === 0
MessageRejected(message) ==
    ~message.truthy \/ ~message.isString \/ message.trimLen = 0

\* !sessionId
SessionIdRejected(sessionId) == ~sessionId.truthy
RetrievalCalls == {"expand", "embed", "search"}

\* the positions at which a request awaits a call that may throw
AwaitPcs ==
    {"getSession", "createHset", "createExpire", "getMessages",
     "userLpush", "userHincr", "userExpire", "classify", "expand", "embed",
     "search", "ragGenerate", "fallback", "generate",
     "asstLpush", "asstHincr", "asstExpire"}

\* vectorUtils.searchSimilar's results: a sequence of documents
RECURSIVE DocSeq(_)
DocSeq(n) == IF n = 0 THEN <<>> ELSE Append(DocSeq(n - 1), n)

DocChoices == {DocSeq(n) : n \in 0..MaxDocs}

\* retrievedDocuments.map((doc) => ({title, url, snippet, score}))
Sources(documents) == [i \in 1..Len(documents) |-> documents[i]]

\* the sources of generateRAGResponseWithRetry's answer: the documents given
RagSources(documents) == Sources(documents)

\* generateFallbackResponse's answer has no sources: response.sources || []
FallbackSources == <<>>

\* a slip: retrieval attempted whatever the classifier says
Retrieves_Always(isNewsRelated) == TRUE

\* if (isNewsRelated)
Retrieves(isNewsRelated) == isNewsRelated

UserMessage(r) == [req |-> r, role |-> "user", sources |-> <<>>]

\* a slip: the assistant message recorded without its sources
AssistantMessage_NoSources(r, sources) ==
    [req |-> r, role |-> "assistant", sources |-> <<>>]

AssistantMessage(r, sources) ==
    [req |-> r, role |-> "assistant", sources |-> sources]

\* a slip: the catch block of sendMessageStream ends the stream silently
CatchEvent_Silent(m) == IF m = "sync" THEN Ev("json500", <<>>) ELSE Ev("end", <<>>)

\* the catch blocks: res.status(500).json(...), or the 'error' event
CatchEvent(m) == IF m = "sync" THEN Ev("json500", <<>>) ELSE Ev("error", <<>>)

\* the client's connection is open
Connected == [closed |-> FALSE, at |-> 0]

\* no text has been sent to the generative model
NoText == [header |-> FALSE, articles |-> <<>>, question |-> 0]

\* a slip: the context block written whatever the context holds
ContextText_AlwaysBlock(prompt, context) ==
    [header |-> TRUE, articles |-> context, question |-> prompt]

\* generateResponse's contextText: "Based on these recent news articles:",
\* the articles and "User Question: <prompt>" when there is context, else
\* the prompt alone
ContextText(prompt, context) ==
    IF Len(context) > 0
    THEN [header |-> TRUE, articles |-> context, question |-> prompt]
    ELSE [header |-> FALSE, articles |-> <<>>, question |-> prompt]

\* the i-th increment a streamed generation yields: one of two pieces of
\* text, so that neighbouring increments differ and the larger comes first
Increment(i) == IF i % 2 = 1 THEN 2 ELSE 1

\* a slip: fullResponse = chunk, which keeps the last increment only
Accumulate_Last(fullResponse, chunk) == <<chunk>>

\* fullResponse += chunk
Accumulate(fullResponse, chunk) == Append(fullResponse, chunk)

\* res.write({type: "complete", fullResponse})
CompleteEvent(fullResponse) == Ev("complete", fullResponse)

\* the call issued on reaching a position is counted with the retrieval calls
CallsAfter(r, nextpc) ==
    IF nextpc \in RetrievalCalls THEN calls[r] \cup {nextpc} ELSE calls[r]

InitChat ==
    /\ sess = Absent
    /\ msgs = <<>>
    /\ msgsTtl = FALSE
    /\ pc = [r \in Req |-> "start"]
    /\ mode = [r \in Req |-> "sync"]
    /\ body = [r \in Req |-> OkBody]
    /\ news = [r \in Req |-> "unknown"]
    /\ docs = [r \in Req |-> <<>>]
    /\ answer = [r \in Req |-> <<>>]
    /\ full = [r \in Req |-> <<>>]
    /\ yielded = [r \in Req |-> <<>>]
    /\ events = [r \in Req |-> <<>>]
    /\ ended = [r \in Req |-> FALSE]
    /\ calls = [r \in Req |-> {}]
    /\ failedAt = [r \in Req |-> "none"]
    /\ appended = [r \in Req |-> <<>>]
    /\ closedAt = [r \in Req |-> Connected]
    /\ llmText = [r \in Req |-> NoText]

\* the embedding client at rest, while the chat requests run
InitEmbedIdle ==
    /\ op = "none"
    /\ texts = <<>>
    /\ batchSize = DefaultBatchSize
    /\ bpc = "none"
    /\ bi = 0
    /\ bk = 0
    /\ allEmbeddings = <<>>
    /\ rInput = [isArray |-> TRUE, items |-> <<>>]
    /\ maxRetries = DefaultMaxRetries
    /\ attempt = 1
    /\ rpc = "idle"
    /\ lastError = NoError
    /\ rResult = Null
    /\ provCalls = 0
    /\ waited = 0
    /\ outcomes = <<>>

(***************************************************************************)
(* ChatController.sendMessage and sendMessageStream, one action per        *)
(* awaited call: the action is the call's return and the code that follows *)
(* it up to the next await.                                                *)
(***************************************************************************)

\* the request arrives: validation, then (stream) writeHead, then getSession.
\* The requests of this specification arrive one after another on the same
\* session id; callers that overlap are those of the store specification.
Intake(r) ==
    /\ pc[r] = "start"
    /\ \A q \in Req : q < r => pc[q] = "done"
    /\ \E m \in Modes, b \in Bodies :
         /\ mode' = [mode EXCEPT ![r] = m]
         /\ body' = [body EXCEPT ![r] = b]
         /\ IF ~MessageRejected(b.message) /\ ~SessionIdRejected(b.sessionId)
            THEN /\ pc' = [pc EXCEPT ![r] = "getSession"]
                 /\ UNCHANGED <<events, ended>>
            ELSE /\ pc' = [pc EXCEPT ![r] = "done"]
                 /\ events' = [events EXCEPT ![r] = Append(@, Ev("json400", <<>>))]
                 /\ ended' = [ended EXCEPT ![r] = TRUE]
    /\ UNCHANGED <<redisVars, news, docs, answer, full, yielded, calls, failedAt, appended>>
    /\ UNCHANGED <<chunkVars, vecVars, failVars, embedVars, storeVars, closedAt, llmText>>

\* sessionUtils.getSession returned: if (!session) createSession
GetSession(r) ==
    /\ pc[r] = "getSession"
    /\ pc' = [pc EXCEPT ![r] = IF sess.exists THEN "getMessages" ELSE "createHset"]
    /\ UNCHANGED <<redisVars, mode, body, news, docs, answer, full, yielded, events,
                   ended, calls, failedAt, appended>>
    /\ UNCHANGED <<chunkVars, vecVars, failVars, embedVars, storeVars, closedAt, llmText>>

\* createSession: redis.hset(sessionKey, sessionData)
CreateHset(r) ==
    /\ pc[r] = "createHset"
    /\ sess' = Hset(sess, r)
    /\ pc' = [pc EXCEPT ![r] = "createExpire"]
    /\ UNCHANGED <<msgs, msgsTtl, mode, body, news, docs, answer, full, yielded, events,
                   ended, calls, failedAt, appended>>
    /\ UNCHANGED <<chunkVars, vecVars, failVars, embedVars, storeVars, closedAt, llmText>>

\* createSession: redis.expire(sessionKey, SESSION_TTL)
CreateExpire(r) ==
    /\ pc[r] = "createExpire"
    /\ sess' = ExpireKey(sess)
    /\ pc' = [pc EXCEPT ![r] = "getMessages"]
    /\ UNCHANGED <<msgs, msgsTtl, mode, body, news, docs, answer, full, yielded, events,
                   ended, calls, failedAt, appended>>
    /\ UNCHANGED <<chunkVars, vecVars, failVars, embedVars, storeVars, closedAt, llmText>>

\* sessionUtils.getMessages returned the conversation history
GetMessages(r) ==
    /\ pc[r] = "getMessages"
    /\ pc' = [pc EXCEPT ![r] = "userLpush"]
    /\ UNCHANGED <<redisVars, mode, body, news, docs, answer, full, yielded, events,
                   ended, calls, failedAt, appended>>
    /\ UNCHANGED <<chunkVars, vecVars, failVars, embedVars, storeVars, closedAt, llmText>>

\* addMessage: redis.lpush(messagesKey, message)
PushMessage(r, m, nextpc) ==
    /\ msgs' = Lpush(msgs, m)
    /\ appended' = [appended EXCEPT ![r] = Append(@, m)]
    /\ pc' = [pc EXCEPT ![r] = nextpc]
    /\ UNCHANGED <<sess, msgsTtl, mode, body, news, docs, answer, full, yielded, events,
                   ended, calls, failedAt>>

\* addMessage: redis.hincrby(sessionKey, "messagesCount", 1)
CountMessage(r, nextpc) ==
    /\ sess' = Hincrby(sess)
    /\ pc' = [pc EXCEPT ![r] = nextpc]
    /\ UNCHANGED <<msgs, msgsTtl, mode, body, news, docs, answer, full, yielded, events,
                   ended, calls, failedAt, appended>>

UserLpush(r) ==
    /\ pc[r] = "userLpush"
    /\ PushMessage(r, UserMessage(r), "userHincr")
    /\ UNCHANGED <<chunkVars, vecVars, failVars, embedVars, storeVars, closedAt, llmText>>

UserHincr(r) ==
    /\ pc[r] = "userHincr"
    /\ CountMessage(r, "userExpire")
    /\ UNCHANGED <<chunkVars, vecVars, failVars, embedVars, storeVars, closedAt, llmText>>

\* addMessage: redis.expire(messagesKey, CHAT_HISTORY_TTL); then (stream)
\* the metadata event, then isNewsRelated is called
UserExpire(r) ==
    /\ pc[r] = "userExpire"
    /\ msgsTtl' = (msgs # <<>>)
    /\ events' = [events EXCEPT ![r] =
                     IF mode[r] = "stream" THEN Append(@, Ev("metadata", <<>>)) ELSE @]
    /\ pc' = [pc EXCEPT ![r] = "classify"]
    /\ UNCHANGED <<sess, msgs, mode, body, news, docs, answer, full, yielded, ended, calls, failedAt, appended>>
    /\ UNCHANGED <<chunkVars, vecVars, failVars, embedVars, storeVars, closedAt, llmText>>

\* llmService.isNewsRelated answered
Classify(r) ==
    /\ pc[r] = "classify"
    /\ \E b \in BOOLEAN :
         LET nextpc == IF Retrieves(b)
                       THEN (IF mode[r] = "sync" THEN "expand" ELSE "embed")
                       ELSE (IF mode[r] = "sync" THEN "fallback" ELSE "generate")
         IN  /\ news' = [news EXCEPT ![r] = IF b THEN "yes" ELSE "no"]
             /\ pc' = [pc EXCEPT ![r] = nextpc]
             /\ calls' = [calls EXCEPT ![r] = CallsAfter(r, nextpc)]
    /\ UNCHANGED <<redisVars, mode, body, docs, answer, full, yielded, events, ended,
                   failedAt, appended>>
    /\ UNCHANGED <<chunkVars, vecVars, failVars, embedVars, storeVars, closedAt, llmText>>

\* processRAGQuery: llmService.expandQuery answered
Expand(r) ==
    /\ pc[r] = "expand"
    /\ pc' = [pc EXCEPT ![r] = "embed"]
    /\ calls' = [calls EXCEPT ![r] = CallsAfter(r, "embed")]
    /\ UNCHANGED <<redisVars, mode, body, news, docs, answer, full, yielded, events,
                   ended, failedAt, appended>>
    /\ UNCHANGED <<chunkVars, vecVars, failVars, embedVars, storeVars, closedAt, llmText>>

\* embeddingsService.generateEmbeddingsWithRetry returned the query vector
Embed(r) ==
    /\ pc[r] = "embed"
    /\ pc' = [pc EXCEPT ![r] = "search"]
    /\ calls' = [calls EXCEPT ![r] = CallsAfter(r, "search")]
    /\ UNCHANGED <<redisVars, mode, body, news, docs, answer, full, yielded, events,
                   ended, failedAt, appended>>
    /\ UNCHANGED <<chunkVars, vecVars, failVars, embedVars, storeVars, closedAt, llmText>>

\* vectorUtils.searchSimilar returned; sync: RAG or fallback generation;
\* stream: the sources event when there are documents, then generation
Search(r) ==
    /\ pc[r] = "search"
    /\ \E d \in DocChoices :
         /\ docs' = [docs EXCEPT ![r] = d]
         /\ IF mode[r] = "sync"
            THEN /\ pc' = [pc EXCEPT ![r] =
                              IF Len(d) > 0 THEN "ragGenerate" ELSE "fallback"]
                 /\ UNCHANGED events
            ELSE /\ pc' = [pc EXCEPT ![r] = "generate"]
                 /\ events' = [events EXCEPT ![r] =
                                  IF Len(d) > 0
                                  THEN Append(@, Ev("sources", Sources(d)))
                                  ELSE @]
    /\ UNCHANGED <<redisVars, mode, body, news, answer, full, yielded, ended, calls,
                   failedAt, appended>>
    /\ UNCHANGED <<chunkVars, vecVars, failVars, embedVars, storeVars, closedAt, llmText>>

\* sync: generateRAGResponseWithRetry returned `response`
RagGenerate(r) ==
    /\ pc[r] = "ragGenerate"
    /\ answer' = [answer EXCEPT ![r] = RagSources(docs[r])]
    /\ llmText' = [llmText EXCEPT ![r] = ContextText(r, docs[r])]
    /\ pc' = [pc EXCEPT ![r] = "asstLpush"]
    /\ UNCHANGED <<redisVars, mode, body, news, docs, full, yielded, events, ended,
                   calls, failedAt, appended>>
    /\ UNCHANGED <<chunkVars, vecVars, failVars, embedVars, storeVars, closedAt>>

\* sync: generateFallbackResponse returned `response`
Fallback(r) ==
    /\ pc[r] = "fallback"
    /\ answer' = [answer EXCEPT ![r] = FallbackSources]
    /\ llmText' = [llmText EXCEPT ![r] = ContextText(r, <<>>)]
    /\ pc' = [pc EXCEPT ![r] = "asstLpush"]
    /\ UNCHANGED <<redisVars, mode, body, news, docs, full, yielded, events, ended,
                   calls, failedAt, appended>>
    /\ UNCHANGED <<chunkVars, vecVars, failVars, embedVars, storeVars, closedAt>>

\* stream: the generator yielded an increment: fullResponse += chunk and
\* the 'content' event
StreamChunk(r) ==
    /\ pc[r] = "generate"
    /\ Len(yielded[r]) < MaxChunks
    /\ LET chunk == Increment(Len(yielded[r]) + 1)
       IN  /\ yielded' = [yielded EXCEPT ![r] = Append(@, chunk)]
           /\ full' = [full EXCEPT ![r] = Accumulate(@, chunk)]
           /\ events' = [events EXCEPT ![r] = Append(@, Ev("content", <<chunk>>))]
    /\ UNCHANGED <<redisVars, pc, mode, body, news, docs, answer, ended, calls,
                   failedAt, appended>>
    /\ UNCHANGED <<chunkVars, vecVars, failVars, embedVars, storeVars, closedAt, llmText>>

\* stream: the generator is exhausted: the 'complete' event, then addMessage
StreamEnd(r) ==
    /\ pc[r] = "generate"
    /\ events' = [events EXCEPT ![r] = Append(@, CompleteEvent(full[r]))]
    /\ pc' = [pc EXCEPT ![r] = "asstLpush"]
    /\ UNCHANGED <<redisVars, mode, body, news, docs, answer, full, yielded, ended,
                   calls, failedAt, appended>>
    /\ UNCHANGED <<chunkVars, vecVars, failVars, embedVars, storeVars, closedAt, llmText>>

\* the sources recorded with the assistant message
RecordedSources(r) ==
    IF mode[r] = "sync" THEN answer[r] ELSE Sources(docs[r])

AsstLpush(r) ==
    /\ pc[r] = "asstLpush"
    /\ PushMessage(r, AssistantMessage(r, RecordedSources(r)), "asstHincr")
    /\ UNCHANGED <<chunkVars, vecVars, failVars, embedVars, storeVars, closedAt, llmText>>

AsstHincr(r) ==
    /\ pc[r] = "asstHincr"
    /\ CountMessage(r, "asstExpire")
    /\ UNCHANGED <<chunkVars, vecVars, failVars, embedVars, storeVars, closedAt, llmText>>

\* addMessage: redis.expire; then res.json(...) or res.end()
AsstExpire(r) ==
    /\ pc[r] = "asstExpire"
    /\ msgsTtl' = (msgs # <<>>)
    /\ events' = [events EXCEPT ![r] =
                     IF mode[r] = "sync" THEN Append(@, Ev("json200", answer[r]))
                     ELSE @]
    /\ ended' = [ended EXCEPT ![r] = TRUE]
    /\ pc' = [pc EXCEPT ![r] = "done"]
    /\ UNCHANGED <<sess, msgs, mode, body, news, docs, answer, full, yielded, calls, failedAt, appended>>
    /\ UNCHANGED <<chunkVars, vecVars, failVars, embedVars, storeVars, closedAt, llmText>>

\* the awaited call threw (the command or request had no effect): the
\* catch block of the handler
CallFails(r) ==
    /\ pc[r] \in AwaitPcs
    /\ failedAt' = [failedAt EXCEPT ![r] = pc[r]]
    /\ events' = [events EXCEPT ![r] = Append(@, CatchEvent(mode[r]))]
    /\ ended' = [ended EXCEPT ![r] = TRUE]
    /\ pc' = [pc EXCEPT ![r] = "done"]
    /\ UNCHANGED <<redisVars, mode, body, news, docs, answer, full, yielded, calls,
                   appended>>
    /\ UNCHANGED <<chunkVars, vecVars, failVars, embedVars, storeVars, closedAt, llmText>>

\* stream: the client goes away while the answer is being generated; the
\* handler registers no 'close' listener and does not look at the connection
ClientDisconnects(r) ==
    /\ mode[r] = "stream"
    /\ pc[r] = "generate"
    /\ ~closedAt[r].closed
    /\ closedAt' = [closedAt EXCEPT ![r] = [closed |-> TRUE, at |-> Len(events[r])]]
    /\ UNCHANGED <<redisVars, pc, mode, body, news, docs, answer, full, yielded, events,
                   ended, calls, failedAt, appended, llmText>>
    /\ UNCHANGED <<chunkVars, vecVars, failVars, embedVars, storeVars>>

\* Redis: the expiry of messages:<id> elapses
MessagesKeyExpires ==
    /\ msgs # <<>>
    /\ msgsTtl
    /\ msgs' = <<>>
    /\ msgsTtl' = FALSE
    /\ UNCHANGED <<sess, pc, mode, body, news, docs, answer, full, yielded, events, ended, calls, failedAt,
                   appended, closedAt, llmText>>
    /\ UNCHANGED <<chunkVars, vecVars, failVars, embedVars, storeVars, closedAt, llmText>>

\* Redis: the expiry of session:<id> elapses
SessionKeyExpires ==
    /\ sess.exists
    /\ sess.ttl
    /\ sess' = [Absent EXCEPT !.lapsed = TRUE]
    /\ UNCHANGED <<msgs, msgsTtl, pc, mode, body, news, docs, answer, full, yielded, events, ended, calls,
                   failedAt, appended, closedAt, llmText>>
    /\ UNCHANGED <<chunkVars, vecVars, failVars, embedVars, storeVars, closedAt, llmText>>

NextChat ==
    \/ \E r \in Req :
         \/ Intake(r)
         \/ GetSession(r)
         \/ CreateHset(r)
         \/ CreateExpire(r)
         \/ GetMessages(r)
         \/ UserLpush(r)
         \/ UserHincr(r)
         \/ UserExpire(r)
         \/ Classify(r)
         \/ Expand(r)
         \/ Embed(r)
         \/ Search(r)
         \/ RagGenerate(r)
         \/ Fallback(r)
         \/ StreamChunk(r)
         \/ StreamEnd(r)
         \/ AsstLpush(r)
         \/ AsstHincr(r)
         \/ AsstExpire(r)
         \/ CallFails(r)
         \/ ClientDisconnects(r)
    \/ MessagesKeyExpires
    \/ SessionKeyExpires

\* the conversation store's callers at rest, while the chat requests run
InitStoreIdle ==
    /\ cop = [c \in 1..NumClients |-> "none"]
    /\ cpc = [c \in 1..NumClients |-> "idle"]
    /\ addsSinceCreated = 0
    /\ addsSinceCreateCall = 0
    /\ lim = [c \in 1..NumClients |-> DefaultLimit]
    /\ view = [c \in 1..NumClients |->
                  [msgs |-> <<>>, removed |-> {}, failed |-> FALSE]]

InitChatSpec == InitChat /\ InitEmbedIdle /\ InitStoreIdle /\ InitChunkIdle
    /\ InitRestIdle

SpecChat == InitChatSpec /\ [][NextChat]_vars

InitEmbedSpec == InitEmbed /\ InitChat /\ InitStoreIdle /\ InitChunkIdle
    /\ InitRestIdle

SpecEmbed == InitEmbedSpec /\ [][NextEmbed]_vars

(***************************************************************************)
(* The conversation store under concurrent callers.  A caller runs the     *)
(* command sequence of one handler on the session id: "send" is the store  *)
(* side of sendMessage / sendMessageStream (get-or-create the session,     *)
(* read the history, addMessage of the user message, the answer pipeline,  *)
(* addMessage of the assistant message); "add" is the bare addMessage of   *)
(* the /chat/message route and of the socket handler; "create" is          *)
(* router.post("/") of routes/sessions.js, which calls createSession on    *)
(* the id of the request body whether or not the session exists.           *)
(***************************************************************************)
Client == 1..NumClients

StoreOps == {"send", "add", "create", "history", "delete"}

\* the limits a getChatHistory request asks for
Limits == 0..MaxLimit

\* the positions at which a caller awaits a Redis command or the pipeline
\* (the two DEL commands of deleteSession are awaited together)
StoreAwaitPcs ==
    {"getSession", "createHset", "createExpire", "getMessages", "userLpush",
     "userHincr", "userExpire", "pipeline", "asstLpush", "asstHincr",
     "asstExpire", "histGetSession", "histGetMessages"}

\* what a caller has seen and removed, before it issues anything
NoView == [msgs |-> <<>>, removed |-> {}, failed |-> FALSE]

FirstPc(o) ==
    IF o = "send" THEN "getSession"
    ELSE IF o = "add" THEN "userLpush"
    ELSE IF o = "create" THEN "createHset"
    ELSE IF o = "history" THEN "histGetSession"
    ELSE "delSession"

\* between the LPUSH and the HINCRBY of an addMessage
AddInFlight(c) == cpc[c] \in {"userHincr", "asstHincr"}

InitStore ==
    /\ sess = Absent
    /\ msgs = <<>>
    /\ msgsTtl = FALSE
    /\ cop = [c \in Client |-> "none"]
    /\ cpc = [c \in Client |-> "start"]
    /\ addsSinceCreated = 0
    /\ addsSinceCreateCall = 0
    /\ lim = [c \in Client |-> DefaultLimit]
    /\ view = [c \in Client |-> NoView]

\* a handler is entered
StoreBegin(c) ==
    /\ cpc[c] = "start"
    /\ \E o \in StoreOps :
         /\ cop' = [cop EXCEPT ![c] = o]
         /\ cpc' = [cpc EXCEPT ![c] = FirstPc(o)]
         /\ IF o = "history"
            THEN \E l \in Limits : lim' = [lim EXCEPT ![c] = l]
            ELSE UNCHANGED lim
    /\ UNCHANGED <<redisVars, addsSinceCreated, addsSinceCreateCall, view>>
    /\ UNCHANGED <<chunkVars, vecVars, failVars, embedVars, reqVars>>

\* let session = await getSession(sessionId); if (!session) createSession
StoreGetSession(c) ==
    /\ cpc[c] = "getSession"
    /\ cpc' = [cpc EXCEPT ![c] = IF sess.exists THEN "getMessages" ELSE "createHset"]
    /\ UNCHANGED <<redisVars, cop, addsSinceCreated, addsSinceCreateCall>>
    /\ UNCHANGED <<chunkVars, vecVars, failVars, embedVars, reqVars, lim, view>>

\* createSession: redis.hset(sessionKey, sessionData)
StoreCreateHset(c) ==
    /\ cpc[c] = "createHset"
    /\ sess' = Hset(sess, c)
    /\ addsSinceCreated' = IF sess.exists THEN addsSinceCreated ELSE 0
    /\ addsSinceCreateCall' = 0
    /\ cpc' = [cpc EXCEPT ![c] = "createExpire"]
    /\ UNCHANGED <<msgs, msgsTtl, cop>>
    /\ UNCHANGED <<chunkVars, vecVars, failVars, embedVars, reqVars, lim, view>>

\* createSession: redis.expire(sessionKey, SESSION_TTL); sendMessage goes
\* on to getMessages, the route of routes/sessions.js answers
StoreCreateExpire(c) ==
    /\ cpc[c] = "createExpire"
    /\ sess' = ExpireKey(sess)
    /\ cpc' = [cpc EXCEPT ![c] =
                  IF cop[c] = "create" THEN "done" ELSE "getMessages"]
    /\ UNCHANGED <<msgs, msgsTtl, cop, addsSinceCreated, addsSinceCreateCall>>
    /\ UNCHANGED <<chunkVars, vecVars, failVars, embedVars, reqVars, lim, view>>

\* getMessages returned the conversation history
StoreGetMessages(c) ==
    /\ cpc[c] = "getMessages"
    /\ cpc' = [cpc EXCEPT ![c] = "userLpush"]
    /\ UNCHANGED <<redisVars, cop, addsSinceCreated, addsSinceCreateCall>>
    /\ UNCHANGED <<chunkVars, vecVars, failVars, embedVars, reqVars, lim, view>>

\* addMessage: redis.lpush(messagesKey, message)
StoreLpush(c) ==
    /\ cpc[c] \in {"userLpush", "asstLpush"}
    /\ msgs' = Lpush(msgs, IF cpc[c] = "userLpush" THEN UserMessage(c)
                           ELSE AssistantMessage(c, <<>>))
    /\ addsSinceCreated' = addsSinceCreated + 1
    /\ addsSinceCreateCall' = addsSinceCreateCall + 1
    /\ cpc' = [cpc EXCEPT ![c] = IF cpc[c] = "userLpush" THEN "userHincr" ELSE "asstHincr"]
    /\ UNCHANGED <<sess, msgsTtl, cop>>
    /\ UNCHANGED <<chunkVars, vecVars, failVars, embedVars, reqVars, lim, view>>

\* addMessage: redis.hincrby(sessionKey, "messagesCount", 1); a record that
\* this command brings into being has, so far, this one message
StoreHincr(c) ==
    /\ cpc[c] \in {"userHincr", "asstHincr"}
    /\ sess' = Hincrby(sess)
    /\ addsSinceCreated' = IF sess.exists THEN addsSinceCreated ELSE 1
    /\ addsSinceCreateCall' = IF sess.exists THEN addsSinceCreateCall ELSE 1
    /\ cpc' = [cpc EXCEPT ![c] = IF cpc[c] = "userHincr" THEN "userExpire" ELSE "asstExpire"]
    /\ UNCHANGED <<msgs, msgsTtl, cop>>
    /\ UNCHANGED <<chunkVars, vecVars, failVars, embedVars, reqVars, lim, view>>

\* addMessage: redis.expire(messagesKey, CHAT_HISTORY_TTL)
StoreExpire(c) ==
    /\ cpc[c] \in {"userExpire", "asstExpire"}
    /\ msgsTtl' = (msgs # <<>>)
    /\ cpc' = [cpc EXCEPT ![c] =
                  IF cpc[c] = "userExpire" /\ cop[c] = "send" THEN "pipeline" ELSE "done"]
    /\ UNCHANGED <<sess, msgs, cop, addsSinceCreated, addsSinceCreateCall>>
    /\ UNCHANGED <<chunkVars, vecVars, failVars, embedVars, reqVars, lim, view>>

\* classification, retrieval and generation are over: the answer is recorded
StorePipeline(c) ==
    /\ cpc[c] = "pipeline"
    /\ cpc' = [cpc EXCEPT ![c] = "asstLpush"]
    /\ UNCHANGED <<redisVars, cop, addsSinceCreated, addsSinceCreateCall>>
    /\ UNCHANGED <<chunkVars, vecVars, failVars, embedVars, reqVars, lim, view>>

\* getChatHistory: getSession returned; 404 when there is no session
StoreHistGetSession(c) ==
    /\ cpc[c] = "histGetSession"
    /\ cpc' = [cpc EXCEPT ![c] = IF sess.exists THEN "histGetMessages" ELSE "done"]
    /\ UNCHANGED <<redisVars, cop, addsSinceCreated, addsSinceCreateCall, lim, view>>
    /\ UNCHANGED <<chunkVars, vecVars, failVars, embedVars, reqVars>>

\* getChatHistory: getMessages(sessionId, parseInt(limit)) returned
StoreHistGetMessages(c) ==
    /\ cpc[c] = "histGetMessages"
    /\ view' = [view EXCEPT ![c].msgs = GetMessagesResult(msgs, lim[c])]
    /\ cpc' = [cpc EXCEPT ![c] = "done"]
    /\ UNCHANGED <<redisVars, cop, addsSinceCreated, addsSinceCreateCall, lim>>
    /\ UNCHANGED <<chunkVars, vecVars, failVars, embedVars, reqVars>>

\* deleteSession: redis.del(sessionKey), the first command of the
\* Promise.all; it is carried out or it fails
StoreDelSession(c) ==
    /\ cpc[c] = "delSession"
    /\ \E done \in BOOLEAN :
         /\ sess' = IF done THEN Absent ELSE sess
         /\ view' = [view EXCEPT
                        ![c].removed = IF done /\ sess.exists
                                       THEN @ \cup {"session"} ELSE @,
                        ![c].failed = ~done]
    /\ cpc' = [cpc EXCEPT ![c] = "delMessages"]
    /\ UNCHANGED <<msgs, msgsTtl, cop, addsSinceCreated, addsSinceCreateCall, lim>>
    /\ UNCHANGED <<chunkVars, vecVars, failVars, embedVars, reqVars>>

\* deleteSession: redis.del(messagesKey), the second command; Promise.all
\* rejects when either command failed
StoreDelMessages(c) ==
    /\ cpc[c] = "delMessages"
    /\ \E done \in BOOLEAN :
         /\ msgs' = IF done THEN <<>> ELSE msgs
         /\ msgsTtl' = IF done THEN FALSE ELSE msgsTtl
         /\ view' = [view EXCEPT
                        ![c].removed = IF done /\ msgs # <<>>
                                       THEN @ \cup {"messages"} ELSE @,
                        ![c].failed = @ \/ ~done]
         /\ cpc' = [cpc EXCEPT ![c] =
                       IF view[c].failed \/ ~done THEN "failed" ELSE "done"]
    /\ UNCHANGED <<sess, cop, addsSinceCreated, addsSinceCreateCall, lim>>
    /\ UNCHANGED <<chunkVars, vecVars, failVars, embedVars, reqVars>>

\* the awaited command (or the pipeline) threw, without effect: the handler
\* goes to its catch block
StoreCallFails(c) ==
    /\ cpc[c] \in StoreAwaitPcs
    /\ cpc' = [cpc EXCEPT ![c] = "failed"]
    /\ UNCHANGED <<redisVars, cop, addsSinceCreated, addsSinceCreateCall>>
    /\ UNCHANGED <<chunkVars, vecVars, failVars, embedVars, reqVars, lim, view>>

NextStore ==
    \/ \E c \in Client :
         \/ StoreBegin(c)
         \/ StoreGetSession(c)
         \/ StoreCreateHset(c)
         \/ StoreCreateExpire(c)
         \/ StoreGetMessages(c)
         \/ StoreLpush(c)
         \/ StoreHincr(c)
         \/ StoreExpire(c)
         \/ StorePipeline(c)
         \/ StoreHistGetSession(c)
         \/ StoreHistGetMessages(c)
         \/ StoreDelSession(c)
         \/ StoreDelMessages(c)
         \/ StoreCallFails(c)
    \/ MessagesKeyExpires
    \/ SessionKeyExpires

\* the chat requests at rest, while the store's callers run
InitReqIdle ==
    /\ pc = [r \in Req |-> "idle"]
    /\ mode = [r \in Req |-> "sync"]
    /\ body = [r \in Req |-> OkBody]
    /\ news = [r \in Req |-> "unknown"]
    /\ docs = [r \in Req |-> <<>>]
    /\ answer = [r \in Req |-> <<>>]
    /\ full = [r \in Req |-> <<>>]
    /\ yielded = [r \in Req |-> <<>>]
    /\ events = [r \in Req |-> <<>>]
    /\ ended = [r \in Req |-> FALSE]
    /\ calls = [r \in Req |-> {}]
    /\ failedAt = [r \in Req |-> "none"]
    /\ appended = [r \in Req |-> <<>>]
    /\ closedAt = [r \in Req |-> Connected]
    /\ llmText = [r \in Req |-> NoText]

InitStoreSpec == InitStore /\ InitReqIdle /\ InitEmbedIdle /\ InitChunkIdle
    /\ InitRestIdle

SpecStore == InitStoreSpec /\ [][NextStore]_vars

\* processTextForEmbedding(text) is called and returns
ProcessText ==
    /\ cPc = "start"
    /\ cClean' = PrepareTextForEmbedding(cText)
    /\ cChunks' = ProcessTextForEmbedding(cText)
    /\ cPc' = "done"
    /\ UNCHANGED <<cText, cAgain>>
    /\ UNCHANGED <<embedVars, chatVars, storeVars, vecVars, failVars>>

\* the cleaned text is cleaned once more, as generateEmbeddings does with
\* every text it is given
PrepareAgain ==
    /\ cPc = "done"
    /\ cAgain' = PrepareTextForEmbedding(AsText(cClean))
    /\ cPc' = "again"
    /\ UNCHANGED <<cText, cClean, cChunks>>
    /\ UNCHANGED <<embedVars, chatVars, storeVars, vecVars, failVars>>

NextChunk == ProcessText \/ PrepareAgain

InitChunkSpec ==
    InitChunk /\ InitEmbedIdle /\ InitChat /\ InitStoreIdle /\ InitRestIdle

SpecChunk == InitChunkSpec /\ [][NextChunk]_vars

(***************************************************************************)
(* initializeServices(): Promise.all([initializeRedis(), initializeQdrant()]) *)
(* as the server and the ingestion script call it.  A request of a call is *)
(* first handled by the service, or fails on its way and leaves the        *)
(* collection as it was; the call goes on when the answer has reached it.  *)
(* Between the two, requests of other calls may be handled: calls of       *)
(* different processes overlap.  The call is over for its caller as soon   *)
(* as one of the two functions has thrown: the server then leaves with     *)
(* process.exit(1), wherever the other function is, while the script only  *)
(* logs and lets the other function go on.  A request that was sent is     *)
(* handled by the service whether or not its sender is still there.        *)
(***************************************************************************)

\* startServer's catch block has run: process.exit(1)
Exited(k) ==
    qKind[k] = "server" /\ (qPc[k] = "thrown" \/ qRedis[k] = "failed")

\* the positions of initializeQdrant at which a request about the
\* collection is awaited
CollectionRequests == {"get", "delete", "create"}

\* the collection once the service has handled the request awaited at a
\* position; a collection that exists is not created again
Handled(coll, at) ==
    IF at = "delete" THEN NoCollection
    ELSE IF at = "create" /\ ~coll.exists THEN CreatedCollection
    ELSE coll

\* response.ok of the request awaited at a position, once the service has
\* handled it on this collection
Accepted(coll, at) ==
    IF at = "get" THEN coll.exists
    ELSE IF at = "create" THEN ~coll.exists
    ELSE TRUE

\* the Qdrant service handles the request a call has sent, and its answer
\* is on the way; or the request fails
QdrantService(k) ==
    /\ qPc[k] \in CollectionRequests
    /\ qResp[k] = "pending"
    /\ \E reached \in BOOLEAN :
         IF reached
         THEN /\ qColl' = Handled(qColl, qPc[k])
              /\ qResp' = [qResp EXCEPT ![k] =
                              IF Accepted(qColl, qPc[k]) THEN "ok" ELSE "failed"]
              /\ qSeen' = [qSeen EXCEPT ![k] =
                              IF qPc[k] = "get" /\ qColl.exists THEN qColl.size ELSE @]
         ELSE /\ qResp' = [qResp EXCEPT ![k] = "failed"]
              /\ UNCHANGED <<qColl, qSeen>>
    /\ UNCHANGED <<qPc, qRedis, qKind, qCalls, qBefore, qLog>>
    /\ UNCHANGED <<embedVars, chatVars, storeVars, chunkVars, searchVars, ingestVars, failVars>>

\* initializeRedis: redis.ping() is answered or rejected
QdrantRedisPing(k) ==
    /\ qRedis[k] = "ping"
    /\ ~Exited(k)
    /\ \E ok \in BOOLEAN :
         qRedis' = [qRedis EXCEPT ![k] = IF ok THEN "ok" ELSE "failed"]
    /\ UNCHANGED <<qColl, qPc, qResp, qKind, qCalls, qBefore, qSeen, qLog>>
    /\ UNCHANGED <<embedVars, chatVars, storeVars, chunkVars, searchVars, ingestVars, failVars>>

\* fetch(baseUrl + "/"): the connection test is answered; the getCollection
\* request goes out
QdrantHealth(k) ==
    /\ qPc[k] = "health"
    /\ ~Exited(k)
    /\ \E ok \in BOOLEAN : qPc' = [qPc EXCEPT ![k] = IF ok THEN "get" ELSE "thrown"]
    /\ UNCHANGED <<qColl, qResp, qRedis, qKind, qCalls, qBefore, qSeen, qLog>>
    /\ UNCHANGED <<embedVars, chatVars, storeVars, chunkVars, searchVars, ingestVars, failVars>>

\* the answer of qdrantHttp.getCollection has come, and the test of the
\* size it reports; the delete or the create request goes out
QdrantGetCollection(k) ==
    /\ qPc[k] = "get"
    /\ qResp[k] # "pending"
    /\ ~Exited(k)
    /\ IF qResp[k] = "ok"
       THEN IF SizeMismatch(qSeen[k])
            THEN /\ qPc' = [qPc EXCEPT ![k] = "delete"]
                 /\ qResp' = [qResp EXCEPT ![k] = "pending"]
                 /\ qLog' = [qLog EXCEPT ![k] = Append(@, "delete")]
            ELSE /\ qPc' = [qPc EXCEPT ![k] = "done"]
                 /\ UNCHANGED <<qLog, qResp>>
       ELSE /\ qPc' = [qPc EXCEPT ![k] = "create"]
            /\ qResp' = [qResp EXCEPT ![k] = "pending"]
            /\ qLog' = [qLog EXCEPT ![k] = Append(@, "create")]
    /\ UNCHANGED <<qColl, qRedis, qKind, qCalls, qBefore, qSeen>>
    /\ UNCHANGED <<embedVars, chatVars, storeVars, chunkVars, searchVars, ingestVars, failVars>>

\* the answer of qdrantHttp.deleteCollection has come; "Need to recreate
\* collection" or the request's own error lead to the catch block, whose
\* create request goes out
QdrantDeleteCollection(k) ==
    /\ qPc[k] = "delete"
    /\ qResp[k] # "pending"
    /\ ~Exited(k)
    /\ qLog' = [qLog EXCEPT ![k] = Append(@, "create")]
    /\ qPc' = [qPc EXCEPT ![k] = "create"]
    /\ qResp' = [qResp EXCEPT ![k] = "pending"]
    /\ UNCHANGED <<qColl, qRedis, qKind, qCalls, qBefore, qSeen>>
    /\ UNCHANGED <<embedVars, chatVars, storeVars, chunkVars, searchVars, ingestVars, failVars>>

\* the catch block: the answer of qdrantHttp.createCollection has come;
\* initializeQdrant returns, or throws when the request was refused
QdrantCreateCollection(k) ==
    /\ qPc[k] = "create"
    /\ qResp[k] # "pending"
    /\ ~Exited(k)
    /\ qPc' = [qPc EXCEPT ![k] = IF qResp[k] = "ok" THEN "done" ELSE "thrown"]
    /\ UNCHANGED <<qColl, qResp, qRedis, qKind, qCalls, qBefore, qSeen, qLog>>
    /\ UNCHANGED <<embedVars, chatVars, storeVars, chunkVars, searchVars, ingestVars, failVars>>

\* initializeServices is called once more: the next start of the server or
\* of the ingestion script, whatever the earlier calls are doing
QdrantCalledAgain ==
    /\ qCalls < NumInits
    /\ qCalls' = qCalls + 1
    /\ qPc' = [qPc EXCEPT ![qCalls + 1] = "health"]
    /\ qRedis' = [qRedis EXCEPT ![qCalls + 1] = "ping"]
    /\ \E caller \in Callers : qKind' = [qKind EXCEPT ![qCalls + 1] = caller]
    /\ qBefore' = [qBefore EXCEPT ![qCalls + 1] = qColl]
    /\ UNCHANGED <<qColl, qResp, qSeen, qLog>>
    /\ UNCHANGED <<embedVars, chatVars, storeVars, chunkVars, searchVars, ingestVars, failVars>>

NextQdrant ==
    \/ \E k \in Inits :
         \/ QdrantService(k)
         \/ QdrantRedisPing(k)
         \/ QdrantHealth(k)
         \/ QdrantGetCollection(k)
         \/ QdrantDeleteCollection(k)
         \/ QdrantCreateCollection(k)
    \/ QdrantCalledAgain

InitQdrantSpec ==
    /\ InitQdrant /\ InitSearchIdle /\ InitIngestIdle
    /\ InitEmbedIdle /\ InitChat /\ InitStoreIdle /\ InitChunkIdle
    /\ InitFailIdle /\ InitSimIdle /\ InitRouteIdle /\ InitSendIdle

SpecQdrant == InitQdrantSpec /\ [][NextQdrant]_vars

(***************************************************************************)
(* vectorUtils.searchSimilar(queryEmbedding, limit)                        *)
(***************************************************************************)

\* the search request is answered and its points are mapped, or the request
\* fails and the error is thrown again
SearchSimilar ==
    /\ sPc = "start"
    /\ \E response \in Responses(sDistance, sPoints, SearchParams(sLimit)) :
          LET got == SearchPoints(response)
          IN  IF got.thrown
              THEN /\ sPc' = "thrown"
                   /\ UNCHANGED <<sResult, sAnswered>>
              ELSE /\ sResult' = MapPoints(got.result)
                   /\ sAnswered' = TRUE
                   /\ sPc' = "returned"
    /\ UNCHANGED <<sDistance, sPoints, sLimit>>
    /\ UNCHANGED <<qdrantVars, ingestVars>>
    /\ UNCHANGED <<embedVars, chatVars, storeVars, chunkVars, failVars>>

NextSearch == SearchSimilar

InitSearchSpec ==
    /\ InitSearch /\ InitQdrantIdle /\ InitIngestIdle
    /\ InitEmbedIdle /\ InitChat /\ InitStoreIdle /\ InitChunkIdle
    /\ InitFailIdle /\ InitSimIdle /\ InitRouteIdle /\ InitSendIdle

SpecSearch == InitSearchSpec /\ [][NextSearch]_vars

(***************************************************************************)
(* The ingestion script: run(), from initializeServices to the end of the  *)
(* loop over the articles.  Several runs of the script may be under way at *)
(* once; they share the clock and the collection.                          *)
(***************************************************************************)

\* initializeRedis: redis.ping() is answered or rejected.  A rejection is
\* thrown to run() at once, which ends in its catch block, while
\* initializeQdrant goes on with its requests
IngestRedisPing(run) ==
    /\ gRedis[run] = "ping"
    /\ \E ok \in BOOLEAN :
         /\ gRedis' = [gRedis EXCEPT ![run] = IF ok THEN "ok" ELSE "failed"]
         /\ gPc' = [gPc EXCEPT ![run] =
                       Settled(@, gInit[run], IF ok THEN "ok" ELSE "failed")]
    /\ UNCHANGED <<clock, gInit, gResp, gSeen, gI, gId, gLastId, gColl, gPoints, gStored>>
    /\ UNCHANGED <<qdrantVars, searchVars>>
    /\ UNCHANGED <<embedVars, chatVars, storeVars, chunkVars, failVars>>

\* initializeQdrant: fetch(baseUrl + "/"), the connection test; a failure
\* is thrown
IngestHealth(run) ==
    /\ gInit[run] = "health"
    /\ \E ok \in BOOLEAN :
         /\ gInit' = [gInit EXCEPT ![run] = IF ok THEN "get" ELSE "thrown"]
         /\ gPc' = [gPc EXCEPT ![run] =
                       Settled(@, IF ok THEN "get" ELSE "thrown", gRedis[run])]
    /\ UNCHANGED <<clock, gResp, gSeen, gRedis, gI, gId, gLastId, gColl, gPoints, gStored>>
    /\ UNCHANGED <<qdrantVars, searchVars>>
    /\ UNCHANGED <<embedVars, chatVars, storeVars, chunkVars, failVars>>

\* the Qdrant service handles the request initializeQdrant has sent, and
\* its answer is on the way; or the request fails.  A delete takes the
\* collection away with its points; the service refuses to create a
\* collection that exists
IngestService(run) ==
    /\ gInit[run] \in CollectionRequests
    /\ gResp[run] = "pending"
    /\ \E reached \in BOOLEAN :
         IF reached
         THEN /\ gColl' = IF gInit[run] = "delete"
                              THEN [exists |-> FALSE, size |-> 0]
                         ELSE IF gInit[run] = "create" /\ ~gColl.exists
                              THEN [exists |-> TRUE, size |-> VectorSize]
                         ELSE gColl
              /\ gPoints' = IF gInit[run] = "delete" THEN {} ELSE gPoints
              /\ gResp' = [gResp EXCEPT ![run] =
                              IF Accepted(gColl, gInit[run]) THEN "ok" ELSE "failed"]
              /\ gSeen' = [gSeen EXCEPT ![run] =
                              IF gInit[run] = "get" /\ gColl.exists
                              THEN gColl.size ELSE @]
         ELSE /\ gResp' = [gResp EXCEPT ![run] = "failed"]
              /\ UNCHANGED <<gColl, gPoints, gSeen>>
    /\ UNCHANGED <<clock, gPc, gInit, gRedis, gI, gId, gLastId, gStored>>
    /\ UNCHANGED <<qdrantVars, searchVars>>
    /\ UNCHANGED <<embedVars, chatVars, storeVars, chunkVars, failVars>>

\* initializeQdrant: the answer of getCollection has come, and the test of
\* the size it reports; with a collection of the right size the function
\* returns, no collection or a failed request leads to the catch block
\* that creates it
IngestGetCollection(run) ==
    /\ gInit[run] = "get"
    /\ gResp[run] # "pending"
    /\ LET next == IF gResp[run] = "ok"
                   THEN IF SizeMismatch(gSeen[run]) THEN "delete" ELSE "done"
                   ELSE "create"
       IN  /\ gInit' = [gInit EXCEPT ![run] = next]
           /\ gResp' = [gResp EXCEPT ![run] = IF next = "done" THEN @ ELSE "pending"]
           /\ gPc' = [gPc EXCEPT ![run] = Settled(@, next, gRedis[run])]
    /\ UNCHANGED <<clock, gSeen, gRedis, gI, gId, gLastId, gColl, gPoints, gStored>>
    /\ UNCHANGED <<qdrantVars, searchVars>>
    /\ UNCHANGED <<embedVars, chatVars, storeVars, chunkVars, failVars>>

\* initializeQdrant: the answer of deleteCollection has come; done or
\* failed, the catch block follows and its create request goes out
IngestDeleteCollection(run) ==
    /\ gInit[run] = "delete"
    /\ gResp[run] # "pending"
    /\ gInit' = [gInit EXCEPT ![run] = "create"]
    /\ gResp' = [gResp EXCEPT ![run] = "pending"]
    /\ UNCHANGED <<clock, gPc, gSeen, gRedis, gI, gId, gLastId, gColl, gPoints, gStored>>
    /\ UNCHANGED <<qdrantVars, searchVars>>
    /\ UNCHANGED <<embedVars, chatVars, storeVars, chunkVars, failVars>>

\* initializeQdrant: the answer of createCollection has come; the function
\* returns, or throws the error of a refused request
IngestCreateCollection(run) ==
    /\ gInit[run] = "create"
    /\ gResp[run] # "pending"
    /\ LET next == IF gResp[run] = "ok" THEN "done" ELSE "thrown"
       IN  /\ gInit' = [gInit EXCEPT ![run] = next]
           /\ gPc' = [gPc EXCEPT ![run] = Settled(@, next, gRedis[run])]
    /\ UNCHANGED <<clock, gResp, gSeen, gRedis, gI, gId, gLastId, gColl, gPoints, gStored>>
    /\ UNCHANGED <<qdrantVars, searchVars>>
    /\ UNCHANGED <<embedVars, chatVars, storeVars, chunkVars, failVars>>

\* a millisecond passes
ClockTick ==
    /\ clock < MaxClock
    /\ clock' = clock + 1
    /\ UNCHANGED <<gPc, gInit, gResp, gSeen, gRedis, gI, gId, gLastId, gColl,
                   gPoints, gStored>>
    /\ UNCHANGED <<qdrantVars, searchVars>>
    /\ UNCHANGED <<embedVars, chatVars, storeVars, chunkVars, failVars>>

\* one turn of the loop up to the call of addEmbedding: the article is
\* skipped (no content, no embedding), or it gets its numericId
IngestArticle(run) ==
    /\ gPc[run] = "loop"
    /\ IF gI[run] < NumArticles
       THEN \E skipped \in BOOLEAN :
              IF skipped
              THEN /\ gI' = [gI EXCEPT ![run] = @ + 1]
                   /\ UNCHANGED <<gPc, gId, gLastId>>
              ELSE /\ gId' = [gId EXCEPT ![run] = NumericId(clock, gI[run])]
                   /\ gLastId' = [gLastId EXCEPT ![run] = gId[run]]
                   /\ gPc' = [gPc EXCEPT ![run] = "upsert"]
                   /\ UNCHANGED gI
       ELSE /\ gPc' = [gPc EXCEPT ![run] = "done"]
            /\ UNCHANGED <<gI, gId, gLastId>>
    /\ UNCHANGED <<clock, gInit, gResp, gSeen, gRedis, gColl, gPoints, gStored>>
    /\ UNCHANGED <<qdrantVars, searchVars>>
    /\ UNCHANGED <<embedVars, chatVars, storeVars, chunkVars, failVars>>

\* vectorUtils.addEmbedding: the upsert is answered, or fails (the request
\* itself, or no collection to write to) and the error is logged; then i++
IngestUpsert(run) ==
    /\ gPc[run] = "upsert"
    /\ \E ok \in BOOLEAN :
         IF ok /\ gColl.exists
         THEN /\ gPoints' = Upsert(gPoints, gId[run], Article(run, gI[run]))
              /\ gStored' = gStored \cup {Article(run, gI[run])}
         ELSE UNCHANGED <<gPoints, gStored>>
    /\ gI' = [gI EXCEPT ![run] = @ + 1]
    /\ gPc' = [gPc EXCEPT ![run] = "loop"]
    /\ UNCHANGED <<clock, gInit, gResp, gSeen, gRedis, gId, gLastId, gColl>>
    /\ UNCHANGED <<qdrantVars, searchVars>>
    /\ UNCHANGED <<embedVars, chatVars, storeVars, chunkVars, failVars>>

NextIngest ==
    \/ ClockTick
    \/ \E run \in Runs :
         \/ IngestRedisPing(run)
         \/ IngestHealth(run)
         \/ IngestService(run)
         \/ IngestGetCollection(run)
         \/ IngestDeleteCollection(run)
         \/ IngestCreateCollection(run)
         \/ IngestArticle(run)
         \/ IngestUpsert(run)

InitIngestSpec ==
    /\ InitIngest /\ InitQdrantIdle /\ InitSearchIdle
    /\ InitEmbedIdle /\ InitChat /\ InitStoreIdle /\ InitChunkIdle
    /\ InitFailIdle /\ InitSimIdle /\ InitRouteIdle /\ InitSendIdle

SpecIngest == InitIngestSpec /\ [][NextIngest]_vars

(***************************************************************************)
(* A ChatController operation fails, twice over: the same operation in the *)
(* same configuration, with two internal errors.                           *)
(***************************************************************************)
OperationFails ==
    /\ fPc = "start"
    /\ fBodyA' = CatchResponse(fOp, fEnv, fMsgA)
    /\ fBodyB' = CatchResponse(fOp, fEnv, fMsgB)
    /\ fPc' = "answered"
    /\ UNCHANGED <<fEnv, fOp, fMsgA, fMsgB, simVars, routeVars, sendVars>>
    /\ UNCHANGED <<embedVars, chatVars, storeVars, chunkVars, vecVars>>

NextFail == OperationFails

InitFailSpec ==
    /\ InitFail /\ InitSimIdle /\ InitVecIdle /\ InitRouteIdle /\ InitSendIdle
    /\ InitEmbedIdle /\ InitChat /\ InitStoreIdle /\ InitChunkIdle

SpecFail == InitFailSpec /\ [][NextFail]_vars

\* calculateSimilarity(vectorA, vectorB) is called and returns or throws
SimilarityCall ==
    /\ simPc = "start"
    /\ simResult' = CalculateSimilarity(vectorA, vectorB)
    /\ simPc' = "done"
    /\ UNCHANGED <<vectorA, vectorB>>
    /\ UNCHANGED <<fEnv, fOp, fMsgA, fMsgB, fPc, fBodyA, fBodyB, routeVars, sendVars>>
    /\ UNCHANGED <<embedVars, chatVars, storeVars, chunkVars, vecVars>>

NextSim == SimilarityCall

InitSimSpec ==
    /\ InitSim /\ InitFailIdle /\ InitVecIdle /\ InitRouteIdle /\ InitSendIdle
    /\ InitEmbedIdle /\ InitChat /\ InitStoreIdle /\ InitChunkIdle

SpecSim == InitSimSpec /\ [][NextSim]_vars

(***************************************************************************)
(* router.post("/message"): one action per awaited call.                   *)
(***************************************************************************)

\* the request arrives: if (!message) 400; else generateEmbedding(message)
RouteIntake ==
    /\ rtPc = "start"
    /\ IF rtMessage
       THEN /\ rtPc' = "embed"
            /\ rtCalls' = rtCalls \cup {"embed"}
            /\ UNCHANGED rtResponse
       ELSE /\ rtPc' = "done"
            /\ rtResponse' = RouteError(400)
            /\ UNCHANGED rtCalls
    /\ UNCHANGED <<rtMessage, rtNews, rtDistance, rtPoints, rtArticles>>
    /\ UNCHANGED <<fEnv, fOp, fMsgA, fMsgB, fPc, fBodyA, fBodyB, simVars, sendVars>>
    /\ UNCHANGED <<embedVars, chatVars, storeVars, chunkVars, vecVars>>

\* generateEmbedding answered: the vector, or null after an error (500);
\* with a vector, vectorUtils.searchSimilar(queryEmbedding, 3) is called
RouteEmbed ==
    /\ rtPc = "embed"
    /\ \/ /\ rtPc' = "search"
          /\ rtCalls' = rtCalls \cup {"search"}
          /\ UNCHANGED rtResponse
       \/ /\ rtPc' = "done"
          /\ rtResponse' = RouteError(500)
          /\ UNCHANGED rtCalls
    /\ UNCHANGED <<rtMessage, rtNews, rtDistance, rtPoints, rtArticles>>
    /\ UNCHANGED <<fEnv, fOp, fMsgA, fMsgB, fPc, fBodyA, fBodyB, simVars, sendVars>>
    /\ UNCHANGED <<embedVars, chatVars, storeVars, chunkVars, vecVars>>

\* searchSimilar answered: relevantArticles, with which
\* llmService.generateResponse(message, relevantArticles) is called; or it
\* threw: the catch
RouteSearch ==
    /\ rtPc = "search"
    /\ \E response \in Responses(rtDistance, rtPoints, SearchParams(RouteLimit)) :
          LET got == SearchPoints(response)
          IN  IF got.thrown
              THEN /\ rtPc' = "done"
                   /\ rtResponse' = RouteError(500)
                   /\ UNCHANGED rtArticles
              ELSE /\ rtArticles' = MapPoints(got.result)
                   /\ rtPc' = "generate"
                   /\ UNCHANGED rtResponse
    /\ UNCHANGED <<rtMessage, rtNews, rtDistance, rtPoints, rtCalls>>
    /\ UNCHANGED <<fEnv, fOp, fMsgA, fMsgB, fPc, fBodyA, fBodyB, simVars, sendVars>>
    /\ UNCHANGED <<embedVars, chatVars, storeVars, chunkVars, vecVars>>

\* llmService.generateResponse answered: the 200 response with the sources
\* of relevantArticles; or it threw: the catch
RouteGenerate ==
    /\ rtPc = "generate"
    /\ \/ rtResponse' = RouteAnswer(rtArticles)
       \/ rtResponse' = RouteError(500)
    /\ rtPc' = "done"
    /\ UNCHANGED <<rtMessage, rtNews, rtDistance, rtPoints, rtCalls, rtArticles>>
    /\ UNCHANGED <<fEnv, fOp, fMsgA, fMsgB, fPc, fBodyA, fBodyB, simVars, sendVars>>
    /\ UNCHANGED <<embedVars, chatVars, storeVars, chunkVars, vecVars>>

NextRoute == RouteIntake \/ RouteEmbed \/ RouteSearch \/ RouteGenerate

InitRouteSpec ==
    /\ InitRoute /\ InitFailIdle /\ InitSimIdle /\ InitVecIdle /\ InitSendIdle
    /\ InitEmbedIdle /\ InitChat /\ InitStoreIdle /\ InitChunkIdle

SpecRoute == InitRouteSpec /\ [][NextRoute]_vars

(***************************************************************************)
(* generateEmbeddings(texts), up to the request it posts.                  *)
(***************************************************************************)

\* validation, cleaning, then axios.post with input: processedTexts; or the
\* throw when no text is valid
SendRequest ==
    /\ ePc = "start"
    /\ IF Len(SelectSeq(eTexts, ValidChars)) = 0
       THEN /\ ePc' = "thrown"
            /\ UNCHANGED eInput
       ELSE /\ ePc' = "posted"
            /\ eInput' = ProcessedTexts(eTexts)
    /\ UNCHANGED eTexts
    /\ UNCHANGED <<fEnv, fOp, fMsgA, fMsgB, fPc, fBodyA, fBodyB, simVars,
                   routeVars>>
    /\ UNCHANGED <<embedVars, chatVars, storeVars, chunkVars, vecVars>>

NextSend == SendRequest

InitSendSpec ==
    /\ InitSend /\ InitFailIdle /\ InitSimIdle /\ InitVecIdle /\ InitRouteIdle
    /\ InitEmbedIdle /\ InitChat /\ InitStoreIdle /\ InitChunkIdle

SpecSend == InitSendSpec /\ [][NextSend]_vars

(***************************************************************************)
(* Properties of the conversation store.                                   *)
(***************************************************************************)

\* C6: when every caller has run sendMessage / sendMessageStream to its end,
\* every command having succeeded, and the session record written by
\* createSession is in the store, messagesCount is the number of addMessage
\* calls made since the session was created (since the record came to
\* exist, or else since the last createSession: either reading will do).
C6_CountIsNumberOfAdds ==
    ( /\ sess.exists
      /\ sess.hasId
      /\ \A c \in Client : cop[c] = "send" /\ cpc[c] = "done" ) =>
        \/ sess.messagesCount = addsSinceCreated
        \/ sess.messagesCount = addsSinceCreateCall


(***************************************************************************)
(* Properties of the embedding client.                                     *)
(***************************************************************************)
RetryFinished == rpc \in {"returned", "thrown"}

AllRateLimited == \A n \in 1..Len(outcomes) : outcomes[n] = 429

\* C1: batchGenerateEmbeddings returns as many results as it was given
\* texts; at each position stands either null or the vector of the text at
\* that position, and null stands at the position of every invalid text.
C1_BatchResultsAligned ==
    (op = "batch" /\ bpc = "done") =>
        /\ Len(allEmbeddings) = Len(texts)
        /\ \A p \in 1..Len(texts) :
              /\ p <= Len(allEmbeddings)
              /\ allEmbeddings[p] \in {Null, Embedding(texts[p])}
              /\ (~ValidText(texts[p]) => allEmbeddings[p] = Null)

\* C2: an attempt answered 401 or 403 is the last attempt of the call: the
\* call has thrown, after one provider request and the first wait only.
C2_AuthAbortsAtOnce ==
    (Len(outcomes) >= 1 /\ outcomes[1] \in {401, 403}) =>
        /\ rpc = "thrown"
        /\ Len(outcomes) = 1
        /\ provCalls = 1
        /\ waited = TotalDelay(1)

\* C3: generateEmbeddingsWithRetry calls the provider at most maxRetries
\* times; it returns at the first successful attempt, with that attempt's
\* result and no attempt after it; and when every attempt is answered 429
\* it throws the rate-limit error after exactly maxRetries attempts.
C3_RetryCap ==
    /\ provCalls <= maxRetries
    /\ Len(outcomes) <= maxRetries
    /\ \A n \in 1..Len(outcomes) :
          outcomes[n] = Ok => (n = Len(outcomes) /\ rpc = "returned")
    /\ rpc = "returned" =>
          /\ Len(outcomes) >= 1
          /\ outcomes[Len(outcomes)] = Ok
          /\ rResult = GenerateEmbeddings(rInput, Ok).value
    /\ (rpc \in {"wait", "call", "thrown"} /\ AllRateLimited) =>
          (rpc = "thrown" <=> Len(outcomes) = maxRetries)
    /\ (rpc = "thrown" /\ Len(outcomes) >= 1 /\ AllRateLimited) =>
          /\ provCalls = maxRetries
          /\ rResult = Err("Rate limit exceeded")

C3_Witness ==
    /\ rpc = "thrown"
    /\ maxRetries = 3
    /\ outcomes = <<429, 429, 429>>

C3_WitnessFirstSuccess ==
    /\ rpc = "returned"
    /\ maxRetries = 3
    /\ outcomes = <<500, Ok>>

\* C4 as stated: after 429, 429, success the call has waited
\* baseDelay + 2*1000 + 4*1000 ms in all.
C4_WaitAsStated ==
    (rpc = "returned" /\ outcomes = <<429, 429, Ok>>) =>
        waited = BaseDelay + 2 * 1000 + 4 * 1000

\* C4 amended: after 429, 429, success the call returns the embedding and
\* has waited 3*baseDelay + 2*1000 + 4*1000 = 9000 ms in all, the base delay
\* being paid before each of the three attempts.
C4_WaitAmended ==
    (rpc = "returned" /\ outcomes = <<429, 429, Ok>>) =>
        /\ waited = 3 * BaseDelay + 2 * 1000 + 4 * 1000
        /\ waited = 9000
        /\ rResult = GenerateEmbeddings(rInput, Ok).value

C4_Witness ==
    /\ op = "retry"
    /\ rpc = "returned"
    /\ outcomes = <<429, 429, Ok>>
    /\ ~rInput.isArray
    /\ rResult = Embedding(Text(1, TRUE, 5))

\* C5: a text that fails validation makes the call throw at its first
\* attempt: no provider request, no second attempt, no backoff wait.
C5_ValidationNotRetried ==
    (~rInput.isArray /\ Len(outcomes) >= 1 /\ outcomes[1] = NoCall) =>
        /\ rpc = "thrown"
        /\ Len(outcomes) = 1
        /\ provCalls = 0
        /\ waited = TotalDelay(1)

(***************************************************************************)
(* Properties of the chat controller.                                      *)
(***************************************************************************)
EventCount(r, t) ==
    Cardinality({i \in 1..Len(events[r]) : events[r][i].type = t})

LastEvent(r) == events[r][Len(events[r])]

\* the request was answered: the 200 response, or a stream that ended on
\* its 'complete' event
Succeeded(r) ==
    /\ ended[r]
    /\ Len(events[r]) > 0
    /\ IF mode[r] = "sync"
       THEN LastEvent(r).type = "json200"
       ELSE LastEvent(r).type = "complete"

\* the steps from classification to generation
PipelinePcs ==
    {"classify", "expand", "embed", "search", "ragGenerate", "fallback",
     "generate"}

\* the commands of the assistant message's addMessage
RecordPcs == {"asstLpush", "asstHincr", "asstExpire"}

\* C7: a request that was answered has pushed exactly two messages: the
\* user message, then the assistant message with the sources of the
\* documents retrieved (none when nothing was retrieved), in both modes and
\* on both branches.
C7_UserThenAssistantRecorded ==
    \A r \in Req :
        Succeeded(r) =>
            appended[r] =
                << [req |-> r, role |-> "user", sources |-> <<>>],
                   [req |-> r, role |-> "assistant",
                    sources |-> [i \in 1..Len(docs[r]) |-> docs[r][i]]] >>

C7_Witness ==
    \E r \in Req :
        /\ Succeeded(r)
        /\ mode[r] = "stream"
        /\ news[r] = "yes"
        /\ Len(docs[r]) > 0
        /\ Len(appended[r]) = 2

\* C8: when the addMessage of the assistant message fails, the answer
\* stays delivered: the 200 response with its sources in synchronous mode,
\* 'complete' as the last event and no 'error' event in streaming mode.
C8_RecordFailureKeepsAnswer ==
    \A r \in Req :
        failedAt[r] \in RecordPcs =>
            IF mode[r] = "sync"
            THEN EventCount(r, "json200") = 1 /\ EventCount(r, "json500") = 0
            ELSE LastEvent(r).type = "complete" /\ EventCount(r, "error") = 0

\* C9: once isNewsRelated has answered false, the request makes no query
\* expansion, no embedding call and no vector search, writes no 'sources'
\* event, and when it is answered the sources delivered and the sources
\* recorded with the assistant message are empty.
C9_NonNewsNoRetrieval ==
    \A r \in Req :
        news[r] = "no" =>
            /\ calls[r] \cap RetrievalCalls = {}
            /\ pc[r] \notin RetrievalCalls
            /\ failedAt[r] \notin RetrievalCalls
            /\ EventCount(r, "sources") = 0
            /\ Succeeded(r) =>
                  /\ (mode[r] = "sync" => LastEvent(r).data = <<>>)
                  /\ Len(appended[r]) = 2
                  /\ appended[r][2].role = "assistant"
                  /\ appended[r][2].sources = <<>>

C9_Witness ==
    \E r \in Req :
        /\ news[r] = "no"
        /\ mode[r] = "sync"
        /\ Succeeded(r)

\* C10: a failure between classification and generation gives the caller
\* exactly one failure signal and no success signal: the 500 response alone
\* in synchronous mode; in streaming mode one 'error' event, the last of a
\* stream that is ended and holds no 'complete' event.
C10_OneFailureSignal ==
    \A r \in Req :
        failedAt[r] \in PipelinePcs =>
            /\ ended[r]
            /\ IF mode[r] = "sync"
               THEN events[r] = << [type |-> "json500", data |-> <<>>] >>
               ELSE /\ EventCount(r, "error") = 1
                    /\ LastEvent(r).type = "error"
                    /\ EventCount(r, "complete") = 0

C10_Witness ==
    \E r \in Req :
        /\ failedAt[r] = "generate"
        /\ mode[r] = "stream"
        /\ Len(full[r]) >= 1
        /\ LastEvent(r).type = "error"

\* the increments of the 'content' events among the first n events, joined
\* in order
RECURSIVE ContentUpTo(_, _)
ContentUpTo(r, n) ==
    IF n = 0 THEN <<>>
    ELSE IF events[r][n].type = "content"
         THEN ContentUpTo(r, n - 1) \o events[r][n].data
         ELSE ContentUpTo(r, n - 1)

\* a streaming response that was opened and has ended without an error
StreamEndedClean(r) ==
    /\ mode[r] = "stream"
    /\ body[r] = OkBody
    /\ ended[r]
    /\ EventCount(r, "error") = 0

\* C11: a streaming response that ends without an error has written, in
\* this order: one 'metadata' event; one 'sources' event exactly when the
\* search returned at least one document; one 'content' event for each
\* increment the generator yielded, in the order it yielded them; one
\* 'complete' event, the last, whose fullResponse is the concatenation of
\* the 'content' increments in order.
C11_StreamEventOrder ==
    \A r \in Req :
        StreamEndedClean(r) =>
            LET n == Len(events[r])
                k == IF Len(docs[r]) > 0 THEN 2 ELSE 1
            IN  /\ n = k + Len(yielded[r]) + 1
                /\ events[r][1].type = "metadata"
                /\ EventCount(r, "metadata") = 1
                /\ EventCount(r, "sources") = k - 1
                /\ (k = 2 => events[r][2].type = "sources")
                /\ \A i \in (k + 1)..(n - 1) :
                      /\ events[r][i].type = "content"
                      /\ events[r][i].data = << yielded[r][i - k] >>
                /\ events[r][n].type = "complete"
                /\ EventCount(r, "complete") = 1
                /\ events[r][n].data = ContentUpTo(r, n)

\* two different increments, the larger first, after a 'sources' event
C11_Witness ==
    \E r \in Req :
        /\ StreamEndedClean(r)
        /\ Len(docs[r]) > 0
        /\ yielded[r] = <<2, 1>>
        /\ EventCount(r, "content") = 2
        /\ LastEvent(r).type = "complete"

\* C12: once the client has disconnected, no further increment is taken
\* from the generator and no further event is written, and the assistant
\* message of the request is pushed at most once.
C12_DisconnectStopsGeneration ==
    \A r \in Req :
        closedAt[r].closed =>
            /\ Len(events[r]) = closedAt[r].at
            /\ Cardinality({i \in 1..Len(appended[r]) :
                               appended[r][i].role = "assistant"}) <= 1

\* C13: a news-related query whose search returned no document is not an
\* error: once its generation has returned, the text sent to the
\* generative model is the user's prompt alone, without a context block,
\* as for a query that is not news-related, and the request goes on to its
\* 200 response.
C13_EmptyRetrievalFallsBack ==
    \A r \in Req :
        ( /\ mode[r] = "sync"
          /\ news[r] \in {"yes", "no"}
          /\ docs[r] = <<>>
          /\ failedAt[r] = "none"
          /\ pc[r] \in {"asstLpush", "asstHincr", "asstExpire", "done"} ) =>
            /\ llmText[r] = [header |-> FALSE, articles |-> <<>>, question |-> r]
            /\ answer[r] = <<>>
            /\ EventCount(r, "json500") = 0
            /\ (pc[r] = "done" => LastEvent(r).type = "json200")

C13_Witness ==
    \E r \in Req :
        /\ mode[r] = "sync"
        /\ news[r] = "yes"
        /\ "search" \in calls[r]
        /\ docs[r] = <<>>
        /\ pc[r] = "done"
        /\ LastEvent(r).type = "json200"
        /\ llmText[r].question = r

(***************************************************************************)
(* Properties of the conversation store: reading, bounds, expiry, delete.  *)
(***************************************************************************)

\* the min(limit, n) most recently pushed messages of a list kept most
\* recent first, oldest first
MostRecentOldestFirst(list, limit) ==
    LET k == Min(limit, Len(list))
    IN  [i \in 1..k |-> list[k + 1 - i]]

\* C14: a getMessages(sessionId, limit) that returns, for a limit >= 0,
\* returns the min(limit, n) most recently pushed messages of the list it
\* read, oldest first (hence at most limit messages).
C14_GetMessagesMostRecent ==
    [][ \A c \in Client :
           (cpc[c] = "histGetMessages" /\ cpc'[c] = "done") =>
               view'[c].msgs = MostRecentOldestFirst(msgs, lim[c]) ]_vars

\* C15: the message list of the session never holds more messages than a
\* fixed bound (the list starts afresh when its expiry elapses).
C15_ListBounded == Len(msgs) <= HistoryBound

\* C16: once the expiry set by createSession has elapsed, and until
\* createSession runs again, there is no session record: getSession
\* returns absent.
C16_SessionGoneAfterTtl == sess.lapsed => ~sess.exists

\* C17: deleteSession is all or nothing: a deleteSession that failed has
\* removed neither key, and the store is never left, between the commands
\* of a deleteSession, without the session record but with its messages.
C17_DeleteAtomic ==
    \A c \in Client :
        cop[c] = "delete" =>
            /\ (cpc[c] = "failed" => view[c].removed = {})
            /\ (cpc[c] = "delMessages" /\ "session" \in view[c].removed) =>
                   msgs = <<>>

(***************************************************************************)
(* Properties of the chunker.                                              *)
(***************************************************************************)

\* C18: a text that is not a string, is empty, or whose cleaned form has
\* fewer than 10 characters gives no chunk.
C18_ShortTextNoChunk ==
    ( /\ cPc = "done"
      /\ \/ ~cText.isString
         \/ RawLength(cText) = 0
         \/ StrLen(cClean) < 10 ) =>
        cChunks = <<>>

C18_Witness ==
    /\ cPc = "done"
    /\ cText.isString
    /\ StrLen(cClean) = 9
    /\ cChunks = <<>>

\* C19: a text whose cleaned form has between 10 and 7500 characters gives
\* exactly one chunk, the cleaned text.
C19_OneChunkIsCleanText ==
    ( /\ cPc = "done"
      /\ cText.isString
      /\ StrLen(cClean) >= 10
      /\ StrLen(cClean) <= 7500 ) =>
        cChunks = <<cClean>>

C19_Witness ==
    /\ cPc = "done"
    /\ Len(cText.sents) >= 2
    /\ StrLen(cClean) = 7500
    /\ cChunks = <<cClean>>

\* C20: every chunk returned has between 10 and 8000 characters.
C20_ChunkLengthWithinBounds ==
    cPc = "done" =>
        \A i \in 1..Len(cChunks) :
            StrLen(cChunks[i]) >= 10 /\ StrLen(cChunks[i]) <= 8000

C20_Witness ==
    /\ cPc = "done"
    /\ StrLen(cClean) > 7500
    /\ Len(cChunks) = 2
    /\ Len(Sentences(cClean)) = 3

\* C21: cleaning a cleaned text changes nothing:
\* prepareTextForEmbedding(prepareTextForEmbedding(t)) is
\* prepareTextForEmbedding(t), texts cut at 8000 characters included.
C21_CleaningIdempotent ==
    cPc = "again" => cAgain = cClean

(***************************************************************************)
(* Properties of batchGenerateEmbeddings: the order of the batches.        *)
(***************************************************************************)

\* the step issues a provider request
IssuesRequest ==
    /\ Len(outcomes') = Len(outcomes) + 1
    /\ outcomes'[Len(outcomes')] # NoCall

\* the positions of texts that belong to the batch at offset i
BatchPositions(i) ==
    {j \in 1..Len(texts) : i < j /\ j <= i + batchSize}

\* the processing of the batch at offset bi is over: its call returned, or
\* the last of its items has been retried one by one
BatchFinished ==
    \/ bpc = "batchRetry" /\ rpc = "returned"
    \/ bpc = "items" /\ bk > Cardinality(BatchPositions(bi))

\* C22: within one call of batchGenerateEmbeddings the batches are
\* processed one after the other: a step issues at most one provider
\* request, every request carries texts of the batch under way only, and
\* the loop moves to the next batch only when the processing of the batch
\* under way (retries and per-item fallback included) is over, with no
\* call left open.
C22_BatchesSequential ==
    [][ op = "batch" =>
          /\ IssuesRequest =>
                /\ provCalls' = provCalls + 1
                /\ bpc \in {"batchRetry", "itemRetry"}
                /\ bi' = bi
                /\ \E f \in [1..Len(rInput.items) -> BatchPositions(bi)] :
                      /\ \A j \in DOMAIN f : rInput.items[j] = texts[f[j]]
                      /\ \A j, k \in DOMAIN f : j < k => f[j] < f[k]
          /\ bi' # bi =>
                /\ BatchFinished
                /\ bi' = bi + batchSize
                /\ rpc' = "idle" ]_vars

\* a request goes out for the second batch after the first batch went
\* through the per-item fallback and lost an item
C22_Witness ==
    /\ op = "batch"
    /\ bi > 0
    /\ bpc = "batchRetry"
    /\ provCalls >= 1
    /\ \E j \in 1..Len(allEmbeddings) : allEmbeddings[j] = Null

(***************************************************************************)
(* Properties of initializeQdrant.                                         *)
(***************************************************************************)

\* initializeQdrant of call k returns
Returns(k) == qPc[k] # "done" /\ qPc'[k] = "done"

\* C23 as stated: whenever initializeQdrant returns, the collection exists
\* with size 768 and Cosine distance; for a collection that existed with
\* size 768 when the call began the call makes no delete and no create
\* request and the points are kept; one that existed with another size has
\* met a delete, then a create request of the call.
C23_EnsureCollection ==
    /\ [][ \A k \in Inits : Returns(k) =>
              /\ qColl'.exists /\ qColl'.size = VectorSize
              /\ qColl'.distance = "Cosine"
              /\ (qBefore[k].exists /\ qBefore[k].size = VectorSize) =>
                    qColl'.points = qBefore[k].points
              /\ (qBefore[k].exists /\ qBefore[k].size # VectorSize) =>
                    qLog'[k] = <<"delete", "create">> ]_vars
    /\ [](\A k \in Inits :
             (qBefore[k].exists /\ qBefore[k].size = VectorSize) =>
                 qLog[k] = <<>>)

(***************************************************************************)
(* Properties of vectorUtils.searchSimilar.                                *)
(***************************************************************************)

\* C24: searchSimilar returns no point with a score below 0.7, at most
\* limit points, in descending order of score, and each point once; when
\* the service answers and no point reaches the threshold it returns the
\* empty sequence; it throws only when the request fails.
C24_SearchThresholdLimitOrder ==
    /\ sPc = "returned" =>
          /\ \A i \in 1..Len(sResult) : sResult[i].score >= 70
          /\ Len(sResult) <= sLimit
          /\ \A i \in 1..(Len(sResult) - 1) :
                sResult[i].score >= sResult[i + 1].score
          /\ \A i \in 1..Len(sResult) :
                \E pt \in sPoints :
                    pt.id = sResult[i].id /\ pt.score = sResult[i].score
          /\ (\A pt \in sPoints : pt.score < 70) => sResult = <<>>
    /\ sPc = "thrown" => ~sAnswered

(***************************************************************************)
(* Properties of the intake of sendMessage and sendMessageStream.          *)
(***************************************************************************)

\* the request body is one the claim names: message missing, not a string
\* or blank after trimming, or sessionId missing
BadBody(b) ==
    \/ ~b.message.truthy
    \/ ~b.message.isString
    \/ b.message.trimLen = 0
    \/ ~b.sessionId.truthy

\* C25: a request whose message is missing, not a string or blank, or whose
\* sessionId is missing, is answered 400 by the step that takes it in: the
\* request is over with that one response, the session record and the
\* message list are as they were, and no classifier, embedding,
\* vector-index or generative call has been made.
C25_IntakeRejects ==
    [][ \A r \in Req :
          (pc[r] = "start" /\ pc'[r] # "start" /\ BadBody(body'[r])) =>
              /\ pc'[r] = "done"
              /\ events'[r] = <<Ev("json400", <<>>)>>
              /\ ended'[r]
              /\ UNCHANGED <<sess, msgs, msgsTtl>>
              /\ calls'[r] = {}
              /\ appended'[r] = <<>>
              /\ news'[r] = "unknown" ]_vars

\* a streaming request with a blank message, answered 400, the store empty
C25_Witness ==
    \E r \in Req :
        /\ mode[r] = "stream"
        /\ body[r].message = Message(TRUE, TRUE, 0)
        /\ body[r].sessionId.truthy
        /\ pc[r] = "done"
        /\ events[r] = <<Ev("json400", <<>>)>>
        /\ ~sess.exists /\ msgs = <<>>

(***************************************************************************)
(* Properties of the ingestion run.                                        *)
(***************************************************************************)

\* the ids of a run grow from one article to the next
IdsIncreaseWithinRun ==
    \A run \in Runs : gPc[run] = "upsert" => gId[run] > gLastId[run]

\* an upsert is answered
UpsertStep == \E run \in Runs : gPc[run] = "upsert" /\ gPc'[run] = "loop"

\* an upsert leaves every article of the collection in the collection
NoPointOverwritten ==
    UpsertStep => \A pt \in gPoints : \E kept \in gPoints' :
                      kept.payload = pt.payload

\* two runs about to upsert hold different ids
RunsHoldDifferentIds ==
    \A r1, r2 \in Runs :
       (r1 # r2 /\ gPc[r1] = "upsert" /\ gPc[r2] = "upsert") =>
           gId[r1] # gId[r2]

\* C26: every point upserted by the ingestion run has an id of its own: the
\* ids of one run are strictly increasing, and runs under way at the same
\* time never give one id to two articles, so that no point is overwritten
\* by another article.
C26_IdsUnique ==
    /\ [](IdsIncreaseWithinRun /\ RunsHoldDifferentIds)
    /\ [][NoPointOverwritten]_vars

(***************************************************************************)
(* Properties of the catch blocks.                                         *)
(***************************************************************************)

\* C27: outside the development configuration two failures of the same
\* operation with different internal error messages are answered with the
\* same body; the streaming 'error' event is the same whatever the error
\* and the configuration, and holds no field for the message.
C27_NoErrorDetailEchoed ==
    fPc = "answered" =>
        /\ fEnv # "development" => fBodyA = fBodyB
        /\ fOp = "sendMessageStream" =>
              /\ fBodyA = fBodyB
              /\ fBodyA.type = "error"
              /\ fBodyA.message = "none"
        /\ fEnv # "development" =>
              fBodyA.message \in {"Internal server error", "none"}

\* sendMessage has failed in production with two different errors
C27_Witness ==
    /\ fPc = "answered"
    /\ fEnv = "production"
    /\ fOp = "sendMessage"
    /\ fMsgA = "connect ECONNREFUSED 127.0.0.1:6379"
    /\ fMsgB = "HTTP 403: invalid api-key"
    /\ fBodyA = fBodyB
    /\ fBodyA.status = 500

(***************************************************************************)
(* Properties of calculateSimilarity.                                      *)
(***************************************************************************)

\* every component of the array is 0
ZeroVector(a) == \A i \in 1..Len(a) : a[i] = Num(0)

\* C28: calculateSimilarity throws when a vector is missing or the two
\* lengths differ; when both are given with the same length and one of
\* them has zero magnitude (two empty vectors included) it returns 0.
C28_SimilarityRaisesOrZero ==
    simPc = "done" =>
        /\ (~vectorA.given \/ ~vectorB.given
               \/ Len(vectorA.v) # Len(vectorB.v)) => simResult.raised
        /\ ( /\ vectorA.given /\ vectorB.given
             /\ Len(vectorA.v) = Len(vectorB.v)
             /\ (ZeroVector(vectorA.v) \/ ZeroVector(vectorB.v)) ) =>
                /\ ~simResult.raised
                /\ simResult.value = "zero"

(***************************************************************************)
(* Properties of the conversation store under overlapping requests.        *)
(***************************************************************************)

\* C29: when the callers are sendMessage / sendMessageStream requests on
\* the same session id, createSession writes the record only when there is
\* none, and a record that counts at least one message keeps its createdAt
\* and never counts fewer.
C29_SessionCreatedOnce ==
    [][ (\A c \in Client : cop[c] = "send") =>
          /\ \A c \in Client :
                (cpc[c] = "createHset" /\ cpc'[c] = "createExpire") =>
                    ~sess.exists
          /\ (sess.exists /\ sess.messagesCount > 0 /\ sess'.exists) =>
                /\ sess'.createdAt = sess.createdAt
                /\ sess'.messagesCount >= sess.messagesCount ]_vars

\* no handler is between two of its commands
StoreQuiet == \A c \in Client : cpc[c] \in {"start", "done"}

\* C30: whenever no handler is under way, a session record that is in the
\* store has an expiry set and holds id, createdAt and messagesCount; so
\* does the record left by an addMessage for a session that was never
\* created, has expired or was deleted.
C30_RecordCompleteWithTtl ==
    (StoreQuiet /\ sess.exists) => (sess.ttl /\ sess.hasId)

(***************************************************************************)
(* Properties of the chat controller: what a failed request leaves behind. *)
(***************************************************************************)

\* the messages of request r that are in the session's history
Remaining(r) == {i \in 1..Len(msgs) : msgs[i].req = r}

\* C31: a request that failed between classification and generation
\* leaves the conversation store as it found it: none of its messages is in
\* the session's history and it has pushed and counted none.
C31_FailureLeavesStoreUntouched ==
    \A r \in Req :
        failedAt[r] \in PipelinePcs =>
            /\ Remaining(r) = {}
            /\ appended[r] = <<>>

\* C32: in both modes a request that embeds a search query for a
\* news-related question has expanded the question first, so that the text
\* embedded and searched is the question joined with its expansion.
C32_BothPathsExpand ==
    \A r \in Req :
        (news[r] = "yes" /\ "embed" \in calls[r]) => "expand" \in calls[r]

(***************************************************************************)
(* Properties of the mounted route POST /api/chat/message.                 *)
(***************************************************************************)

\* C33: for a question that is not about current news the route handler
\* makes no embedding call and no vector search, and the sources it
\* answers with are empty.
C33_RouteGate ==
    ~rtNews =>
        /\ rtCalls = {}
        /\ rtResponse.sources = <<>>

(***************************************************************************)
(* Properties of batchGenerateEmbeddings: the per-item fallback and the    *)
(* waits.                                                                  *)
(***************************************************************************)

\* the batch under way failed as a whole and is being retried item by item
InFallback == op = "batch" /\ bpc \in {"items", "itemRetry"}

\* the results of the items retried so far are the last entries of the
\* result array, in input order, each the item's vector or null
FallbackInOrder ==
    InFallback =>
        /\ Len(allEmbeddings) >= bk - 1
        /\ \A k \in 1..(bk - 1) :
              allEmbeddings[Len(allEmbeddings) - (bk - 1) + k]
                  \in {Null, Embedding(texts[bi + k])}

\* C34: while a failed batch is retried item by item, every item retried
\* so far is recorded at its own position of the result array, as its
\* vector or as null, the entries of the batches before it being in place.
C34_FallbackPerItem ==
    InFallback =>
        /\ Len(allEmbeddings) = bi + bk - 1
        /\ \A k \in 1..(bk - 1) :
              allEmbeddings[bi + k] \in {Null, Embedding(texts[bi + k])}

\* the wait the claim states for attempt n: 1000, 3000, 5000 ms, ...
StatedWait(n) ==
    IF n = 1 THEN 1000
    ELSE IF n = 2 THEN 3000
    ELSE IF n = 3 THEN 5000
    ELSE 1000 + Pow2(n - 1) * 1000

RECURSIVE StatedWaitsUpTo(_)
StatedWaitsUpTo(n) == IF n = 0 THEN 0 ELSE StatedWaitsUpTo(n - 1) + StatedWait(n)

\* C35: the wait before attempt n of generateEmbeddingsWithRetry is
\* exactly 1000 + (n > 1 ? 2^(n-1) * 1000 : 0) ms, that is 1000, 3000 and
\* 5000 ms before attempts 1, 2 and 3, and every provider request of
\* attempt n is made after the waits of attempts 1..n have all been
\* completed.
C35_WaitBeforeEveryAttempt ==
    [][ /\ (rpc = "wait" /\ rpc' = "call") =>
              /\ attempt' = attempt
              /\ waited' - waited = StatedWait(attempt)
        /\ (provCalls' > provCalls \/ Len(outcomes') > Len(outcomes)) =>
              /\ rpc = "call"
              /\ Len(outcomes) = attempt - 1
              /\ waited = StatedWaitsUpTo(attempt) ]_vars

C35_Witness ==
    /\ rpc = "returned"
    /\ outcomes = <<500, 429, Ok>>
    /\ provCalls = 3
    /\ waited = 1000 + 3000 + 5000

\* a step of batchGenerateEmbeddings that leaves one batch behind
BatchLeft == op = "batch" /\ bi' > bi

\* C36: when a batch that is not the last one is left behind, whether it
\* succeeded as a whole or was retried item by item, the delayMs wait comes
\* next; after the last batch no delayMs wait is made.
C36_DelayBetweenBatches ==
    [][ BatchLeft =>
          IF bi' < Len(texts) THEN bpc' = "delay" ELSE bpc' # "delay" ]_vars

(***************************************************************************)
(* Properties of the chunker: what the chunks hold of the text.            *)
(***************************************************************************)

\* the chunks joined with single spaces
JoinChunks(chunks) ==
    LET RECURSIVE Join(_)
        Join(n) == IF n = 0 THEN <<>> ELSE Join(n - 1) \o chunks[n]
    IN  Join(Len(chunks))

\* the text was processed; its cleaned form, whole, is longer than 7500
\* characters and each of its sentences has between 10 and 7500 characters
LongTextOfFittingSentences ==
    /\ cPc = "done"
    /\ cText.isString
    /\ StrLen(Cleaned(cText)) > 7500
    /\ \A i \in 1..Len(Sentences(Cleaned(cText))) :
          /\ StrLen(Sentences(Cleaned(cText))[i]) >= 10
          /\ StrLen(Sentences(Cleaned(cText))[i]) <= 7500

\* the same, for a cleaned form of at most 8000 characters
NothingLostUpTo8000 ==
    (LongTextOfFittingSentences /\ StrLen(Cleaned(cText)) <= 8000) =>
        JoinChunks(cChunks) = Cleaned(cText)

\* C37: for a text whose cleaned form is longer than 7500 characters and
\* whose sentences each have between 10 and 7500 characters, the chunks
\* returned, joined with single spaces, are the whole cleaned text.
C37_NoContentLost ==
    LongTextOfFittingSentences => JoinChunks(cChunks) = Cleaned(cText)

\* the sentences of the cleaned text, trimmed, in order
TrimmedSentences ==
    [i \in 1..Len(Sentences(cClean)) |-> Trim(Sentences(cClean)[i])]

\* sentences a..b joined with single spaces
JoinSentences(a, b) ==
    LET RECURSIVE Join(_)
        Join(n) == IF n < a THEN <<>> ELSE Join(n - 1) \o TrimmedSentences[n]
    IN  Join(b)

\* the chunk is a run of whole consecutive sentences, or the first 7500
\* characters of one sentence longer than that
MadeOfSentences(chunk) ==
    \E a \in 1..Len(TrimmedSentences) :
        \/ \E b \in a..Len(TrimmedSentences) : chunk = JoinSentences(a, b)
        \/ /\ StrLen(TrimmedSentences[a]) > 7500
           /\ chunk = Substring(TrimmedSentences[a], 7500)

\* the sentence that follows the chunk in the text, if any, does not fit
\* into the chunk
NextDoesNotFit(chunk) ==
    LET last == chunk[Len(chunk)].sent
        later == {i \in 1..Len(TrimmedSentences) :
                     TrimmedSentences[i][1].sent > last}
    IN  later # {} =>
            LET next == CHOOSE i \in later : \A j \in later : i <= j
            IN  StrLen(chunk \o TrimmedSentences[next]) > 7500

\* C38: on the sentence-splitting path every chunk returned has at most
\* 7500 characters and is made of whole consecutive sentences, the chunks
\* follow the order of the text, the sentence after a chunk is one that
\* would not fit into it, and a sentence longer than 7500 characters is
\* returned as its first 7500 characters.
C38_GreedyPacking ==
    (cPc = "done" /\ StrLen(cClean) > 7500) =>
        /\ \A i \in 1..Len(cChunks) :
              /\ StrLen(cChunks[i]) <= 7500
              /\ MadeOfSentences(cChunks[i])
              /\ NextDoesNotFit(cChunks[i])
        /\ \A i \in 1..(Len(cChunks) - 1) :
              cChunks[i][Len(cChunks[i])].sent < cChunks[i + 1][1].sent
        /\ \A a \in 1..Len(TrimmedSentences) :
              StrLen(TrimmedSentences[a]) > 7500 =>
                  \E i \in 1..Len(cChunks) :
                      cChunks[i] = Substring(TrimmedSentences[a], 7500)

C38_Witness ==
    /\ cPc = "done"
    /\ StrLen(cClean) > 7500
    /\ Len(cChunks) = 2
    /\ Len(cChunks[1]) = 2
    /\ StrLen(cChunks[2]) = 7500
    /\ StrLen(TrimmedSentences[Len(TrimmedSentences)]) > 7500

(***************************************************************************)
(* Properties of the request generateEmbeddings posts.                     *)
(***************************************************************************)

\* C39: every string of the input array that generateEmbeddings posts to
\* the provider holds at least one character.
C39_NoEmptyStringSent ==
    ePc = "posted" => \A k \in 1..Len(eInput) : Len(eInput[k]) > 0

====
